---- MODULE Spec2Model ----
(***************************************************************************)
(* A model of macpst: the PST parser's open/close lifecycle and message    *)
(* extraction (src/src/macpst/core/pst_parser.py), the message filter and  *)
(* duplicate detector (src/src/macpst/utils/filters.py) and the batch      *)
(* processor (src/src/macpst/core/batch_processor.py).                     *)
(*                                                                         *)
(* Python strings are sequences of one-character strings, so that lower(), *)
(* strip(), slicing, "in" and join are computed, not assumed.  None is the *)
(* empty sequence <<>> and a present optional value v is <<v>>.            *)
(***************************************************************************)
EXTENDS Integers, Sequences, FiniteSets, TLC

VARIABLES
  \* DuplicateDetector and one remove_duplicates experiment
  dd_config, dd_messages, dd_strategy, dd_kept, dd_kept2, dd_pc,
  \* MessageFilter: its fields, the patterns as they were passed to add_*_filter,
  \* the number of setter calls, and one evaluation of matches
  mf, mf_added, mf_calls, mf_message, mf_checks, mf_pc,
  \* PSTParser: the archive file on disk, the parser object's fields
  \* (file_handle, is_unicode, header), where the object is in its life
  \* (ps_pc), whether a with-block is running (ps_with), and the last call
  \* made on it with its outcome
  ps_file, ps_pc, ps_file_handle, ps_is_unicode, ps_header, ps_with, ps_last,
  \* One run of extract_messages: where the generator is (ex_pc), whether
  \* pypff can be imported (ex_lib), the library's file (ex_pff), the calls
  \* of _extract_all_messages in progress (ex_stack), the records yielded so
  \* far (ex_out), which run over the archive this is (ex_run), what the run
  \* before yielded (ex_first), and the
  \* locals of _parse_pst_basic: message_count and messages; sc_reads is the
  \* number of chunks the scan has read so far, modulo 2
  ex_pc, ex_lib, ex_pff, ex_stack, ex_out, ex_run, ex_first,
  sc_message_count, sc_messages, sc_reads,
  \* One run of _extract_messages_from_folder: the library folder (fo_folder),
  \* the method being tried (fo_pc) and its loop index (fo_i), messages_found,
  \* the method each yielded record came from (fo_yielded), and the methods
  \* entered so far (fo_tried); total_messages of get_statistics once the
  \* folder tree was built and counted (fo_total)
  fo_folder, fo_pc, fo_i, fo_messages_found, fo_yielded, fo_tried, fo_total,
  \* One run of BatchProcessor.process_files: the files handed in (bp_files),
  \* max_workers, the main thread's position (bp_pc) and loop index (bp_next),
  \* self.stats, the holder of self._lock, the submitted tasks (bp_task) and
  \* all_messages; the output formats and the progress callback handed in,
  \* current_step, the number of calls made to the callback and the
  \* percentages passed to it, where batch_convert is (bp_conv) and its
  \* results; the configured filter and duplicate removal, what goes wrong in
  \* conversion (bp_fault), processed_messages, and the writes made so far to
  \* self.stats and all_messages with whether the lock was held (bp_writes)
  bp_files, bp_max_workers, bp_pc, bp_next, bp_stats, bp_lock, bp_task,
  bp_all_messages, bp_formats, bp_callback, bp_current_step, bp_calls,
  bp_reports, bp_conv, bp_results, bp_filter, bp_dedup, bp_fault,
  bp_processed, bp_writes,
  \* One run of BaseConverter.convert_messages: the names of the files in
  \* output_dir (nm_dir), the messages handed in, the converter's extension,
  \* where the call is (nm_pc) and its loop index (nm_i), converted_count and
  \* error_count (nm_result), and for each message so far the name generated,
  \* the directory it was generated against and what convert_message did
  nm_dir, nm_messages, nm_ext, nm_pc, nm_i, nm_result, nm_log,
  \* One ProgressTracker: self.callbacks (by what each callback does), the
  \* holder of self._lock, the progress fields, where each thread is (pt_pc),
  \* the loop index of update_progress, the callbacks that have returned or
  \* raised in this update, and what the other thread's get_progress returned
  pt_callbacks, pt_lock, pt_fields, pt_pc, pt_i, pt_notified, pt_got

ddVars == <<dd_config, dd_messages, dd_strategy, dd_kept, dd_kept2, dd_pc>>

mfVars == <<mf, mf_added, mf_calls, mf_message, mf_checks, mf_pc>>

psVars == <<ps_file, ps_pc, ps_file_handle, ps_is_unicode, ps_header, ps_with, ps_last>>

exVars ==
  <<ex_pc, ex_lib, ex_pff, ex_stack, ex_out, ex_run, ex_first,
    sc_message_count, sc_messages, sc_reads>>

foVars == <<fo_folder, fo_pc, fo_i, fo_messages_found, fo_yielded, fo_tried, fo_total>>

bpVars ==
  <<bp_files, bp_max_workers, bp_pc, bp_next, bp_stats, bp_lock, bp_task,
    bp_all_messages, bp_formats, bp_callback, bp_current_step, bp_calls,
    bp_reports, bp_conv, bp_results, bp_filter, bp_dedup, bp_fault,
    bp_processed, bp_writes>>

\* What one run of process_files never writes
bpGiven ==
  <<bp_files, bp_max_workers, bp_formats, bp_callback, bp_filter, bp_dedup, bp_fault>>

\* The locals of the progress reports
bpProgress == <<bp_current_step, bp_calls, bp_reports>>

\* The locals of batch_convert
bpConvert == <<bp_conv, bp_results, bp_processed>>

nmVars == <<nm_dir, nm_messages, nm_ext, nm_pc, nm_i, nm_result, nm_log>>

ptVars == <<pt_callbacks, pt_lock, pt_fields, pt_pc, pt_i, pt_notified, pt_got>>

vars == <<ddVars, mfVars, psVars, exVars, foVars, bpVars, nmVars, ptVars>>

\* What the operations of one component leave alone: the other components.
notDd == <<mfVars, psVars, exVars, foVars, bpVars, nmVars, ptVars>>
notMf == <<ddVars, psVars, exVars, foVars, bpVars, nmVars, ptVars>>
notPs == <<ddVars, mfVars, exVars, foVars, bpVars, nmVars, ptVars>>
notEx == <<ddVars, mfVars, foVars, bpVars, nmVars, ptVars>>
notFo == <<ddVars, mfVars, psVars, exVars, bpVars, nmVars, ptVars>>
notBp == <<ddVars, mfVars, psVars, exVars, foVars, nmVars, ptVars>>
notNm == <<ddVars, mfVars, psVars, exVars, foVars, bpVars, ptVars>>
notPt == <<ddVars, mfVars, psVars, exVars, foVars, bpVars, nmVars>>

\* A component that takes no part in a specification stays as it is here.
DedupIdle ==
  /\ dd_config = <<>> /\ dd_messages = <<>> /\ dd_strategy = "first"
  /\ dd_kept = <<>> /\ dd_kept2 = <<>> /\ dd_pc = "idle"

FilterIdle ==
  /\ mf = <<>> /\ mf_added = <<>> /\ mf_calls = 0
  /\ mf_message = <<>> /\ mf_checks = <<>> /\ mf_pc = "idle"

ParserIdle ==
  /\ ps_file = <<>> /\ ps_pc = "idle" /\ ps_file_handle = <<>>
  /\ ps_is_unicode = FALSE /\ ps_header = <<>> /\ ps_with = FALSE
  /\ ps_last = <<>>

ExtractIdle ==
  /\ ex_pc = "idle" /\ ex_lib = "none" /\ ex_pff = <<>> /\ ex_stack = <<>>
  /\ ex_out = <<>> /\ ex_run = 1 /\ ex_first = <<>>
  /\ sc_message_count = 0 /\ sc_messages = <<>> /\ sc_reads = 0

FolderIdle ==
  /\ fo_folder = <<>> /\ fo_pc = "idle" /\ fo_i = 0
  /\ fo_messages_found = 0 /\ fo_yielded = <<>> /\ fo_tried = {}
  /\ fo_total = <<>>

BatchIdle ==
  /\ bp_files = <<>> /\ bp_max_workers = 1 /\ bp_pc = "idle" /\ bp_next = 1
  /\ bp_stats = [files_processed |-> 0, files_failed |-> 0, total_messages |-> 0,
                 filtered_messages |-> 0, duplicates_removed |-> 0]
  /\ bp_lock = <<>> /\ bp_task = <<>> /\ bp_all_messages = <<>>
  /\ bp_formats = <<>> /\ bp_callback = [kind |-> "none", raise_at |-> 0]
  /\ bp_current_step = 0 /\ bp_calls = 0 /\ bp_reports = <<>>
  /\ bp_conv = [i |-> 0, j |-> 0, converted |-> 0] /\ bp_results = <<>>
  /\ bp_filter = <<>> /\ bp_dedup = <<>> /\ bp_fault = <<>>
  /\ bp_processed = <<>> /\ bp_writes = {}

NamesIdle ==
  /\ nm_dir = {} /\ nm_messages = <<>> /\ nm_ext = <<>> /\ nm_pc = "idle"
  /\ nm_i = 0 /\ nm_result = [converted_count |-> 0, error_count |-> 0]
  /\ nm_log = <<>>

TrackerIdle ==
  /\ pt_callbacks = <<>> /\ pt_lock = <<>> /\ pt_fields = <<>>
  /\ pt_pc = <<>> /\ pt_i = 0 /\ pt_notified = {} /\ pt_got = <<>>

-----------------------------------------------------------------------------
(* Python str and datetime                                                 *)

UpperLetters ==
  <<"A","B","C","D","E","F","G","H","I","J","K","L","M",
    "N","O","P","Q","R","S","T","U","V","W","X","Y","Z">>

LowerLetters ==
  <<"a","b","c","d","e","f","g","h","i","j","k","l","m",
    "n","o","p","q","r","s","t","u","v","w","x","y","z">>

\* The characters of the model in ASCII order (ord() is the index).
Alphabet ==
  <<" ", "#", ",", "-", ".", "/">> \o
  <<"0","1","2","3","4","5","6","7","8","9">> \o
  <<":", "<", ">", "@">> \o UpperLetters \o <<"_">> \o LowerLetters \o <<"|">>

Chars == { Alphabet[i] : i \in 1..Len(Alphabet) }

OrdTable == [c \in Chars |-> CHOOSE i \in 1..Len(Alphabet) : Alphabet[i] = c]

\* ord(c)
Ord(c) == OrdTable[c]

IsUpper(c) == \E i \in 1..Len(UpperLetters) : UpperLetters[i] = c

LowerTable ==
  [c \in Chars |->
     IF IsUpper(c)
     THEN LowerLetters[CHOOSE i \in 1..Len(UpperLetters) : UpperLetters[i] = c]
     ELSE c]

\* str.lower() on one character
LowerChar(c) == LowerTable[c]

\* str.lower()
Lower(s) == [i \in 1..Len(s) |-> LowerChar(s[i])]

IsSpace(c) == c = " "

\* str.strip(): leading and trailing whitespace removed
Strip(s) ==
  IF \A i \in 1..Len(s) : IsSpace(s[i]) THEN <<>>
  ELSE LET a == CHOOSE i \in 1..Len(s) :
                  /\ ~IsSpace(s[i])
                  /\ \A j \in 1..(i-1) : IsSpace(s[j])
           b == CHOOSE i \in 1..Len(s) :
                  /\ ~IsSpace(s[i])
                  /\ \A j \in (i+1)..Len(s) : IsSpace(s[j])
       IN SubSeq(s, a, b)

\* s[:n]
Prefix(s, n) == SubSeq(s, 1, IF Len(s) < n THEN Len(s) ELSE n)

\* "p in s" for Python strings
Contains(p, s) ==
  \E i \in 0..(Len(s) - Len(p)) : SubSeq(s, i + 1, i + Len(p)) = p

\* s < t for Python strings (lexicographic on ord)
StrLess(s, t) ==
  \E k \in 1..(Len(t)) :
    /\ \A j \in 1..(k-1) : j <= Len(s) /\ s[j] = t[j]
    /\ \/ k = Len(s) + 1
       \/ k <= Len(s) /\ Ord(s[k]) < Ord(t[k])

\* sep.join(parts)
RECURSIVE Join(_, _)
Join(sep, parts) ==
  IF parts = <<>> THEN <<>>
  ELSE IF Len(parts) = 1 THEN parts[1]
  ELSE parts[1] \o sep \o Join(sep, Tail(parts))

\* sorted(list of str): insertion into a sorted list, stable
RECURSIVE InsertSorted(_, _)
InsertSorted(x, sorted) ==
  IF sorted = <<>> THEN <<x>>
  ELSE IF StrLess(x, Head(sorted)) THEN <<x>> \o sorted
  ELSE <<Head(sorted)>> \o InsertSorted(x, Tail(sorted))

RECURSIVE SortedStrs(_)
SortedStrs(strs) ==
  IF strs = <<>> THEN <<>>
  ELSE InsertSorted(strs[Len(strs)], SortedStrs(SubSeq(strs, 1, Len(strs) - 1)))

\* A datetime: the date and hour as one number, minute and second.
DateTime(day, minute, second) == [day |-> day, minute |-> minute, second |-> second]

\* a < b for datetimes
DateLess(a, b) ==
  \/ a.day < b.day
  \/ a.day = b.day /\ a.minute < b.minute
  \/ a.day = b.day /\ a.minute = b.minute /\ a.second < b.second

Digit(n) == <<"0","1","2","3","4","5","6","7","8","9">>[n + 1]

TwoDigits(n) == <<Digit(n \div 10), Digit(n % 10)>>

\* datetime.isoformat(): date-hour, minute, second
IsoFormat(d) ==
  TwoDigits(d.day) \o <<":">> \o TwoDigits(d.minute) \o <<":">> \o TwoDigits(d.second)

\* "a or b" on optional values (None is <<>>, the empty string is <<>>)
Or(a, b) == IF a # <<>> THEN a ELSE b

-----------------------------------------------------------------------------
(* EmailMessage                                                            *)

EmailMessage(subject, sender, recipients, body_text, sent_time, received_time, folder_path, attachments) ==
  [subject |-> subject, sender |-> sender, recipients |-> recipients,
   body_text |-> body_text, body_html |-> <<>>,
   sent_time |-> sent_time, received_time |-> received_time,
   folder_path |-> folder_path, attachments |-> attachments]

-----------------------------------------------------------------------------
(* DuplicateDetector (filters.py)                                          *)

\* DuplicateDetector.__init__: date_tolerance_minutes
DefaultToleranceMinutes == 5

\* body[:100]
BodyPreviewLen == 100

DetectorConfig(cs, cf, cr, cb, cd, tol) ==
  [check_subject |-> cs, check_sender |-> cf, check_recipients |-> cr,
   check_body |-> cb, check_date |-> cd, date_tolerance_minutes |-> tol]

\* DuplicateDetector.__init__
DetectorInit == DetectorConfig(TRUE, TRUE, TRUE, FALSE, FALSE, DefaultToleranceMinutes)

\* message.sent_time or message.received_time
MessageDate(m) == Or(m.sent_time, m.received_time)

\* the "date:" part of the signature: minute floored to the tolerance window
DateRounded(d, tol) ==
  DateTime(d.day, (d.minute \div tol) * tol, 0)

Chars_subj == <<"s","u","b","j",":">>
Chars_from == <<"f","r","o","m",":">>
Chars_to   == <<"t","o",":">>
Chars_body == <<"b","o","d","y",":">>
Chars_date == <<"d","a","t","e",":">>

\* DuplicateDetector.get_message_signature: signature_parts
SignatureParts(cfg, m) ==
  (IF cfg.check_subject /\ m.subject # <<>>
     THEN <<Chars_subj \o Strip(Lower(m.subject))>> ELSE <<>>) \o
  (IF cfg.check_sender /\ m.sender # <<>>
     THEN <<Chars_from \o Strip(Lower(m.sender))>> ELSE <<>>) \o
  (IF cfg.check_recipients /\ m.recipients # <<>>
     THEN <<Chars_to \o Join(<<",">>,
              SortedStrs([i \in 1..Len(m.recipients) |-> Strip(Lower(m.recipients[i]))]))>>
     ELSE <<>>) \o
  (IF cfg.check_body
     THEN <<Chars_body \o Strip(Lower(Prefix(Or(m.body_text, m.body_html), BodyPreviewLen)))>>
     ELSE <<>>) \o
  (IF cfg.check_date /\ MessageDate(m) # <<>>
     THEN <<Chars_date \o IsoFormat(DateRounded(MessageDate(m)[1], cfg.date_tolerance_minutes))>>
     ELSE <<>>)

\* DuplicateDetector.get_message_signature
get_message_signature(cfg, m) == Join(<<"|">>, SignatureParts(cfg, m))

\* The signature of every message of a list, in list order
Signatures(cfg, messages) ==
  [i \in 1..Len(messages) |-> get_message_signature(cfg, messages[i])]

\* signature_groups[sig] of find_duplicates: the messages with that signature,
\* in input order
SignatureGroup(messages, sigs, sig) ==
  LET idx == { i \in 1..Len(messages) : sigs[i] = sig }
      RECURSIVE Pick(_)
      Pick(i) == IF i > Len(messages) THEN <<>>
                 ELSE (IF i \in idx THEN <<messages[i]>> ELSE <<>>) \o Pick(i + 1)
  IN Pick(1)

\* The keys of the dict find_duplicates returns: the signatures of the groups
\* with len(msgs) > 1
DuplicateSignatures(sigs) ==
  { sig \in { sigs[i] : i \in 1..Len(sigs) } :
      Cardinality({ i \in 1..Len(sigs) : sigs[i] = sig }) > 1 }

\* DuplicateDetector.find_duplicates
find_duplicates(cfg, messages) == DuplicateSignatures(Signatures(cfg, messages))

WithDates(group) == SelectSeq(group, LAMBDA m : MessageDate(m) # <<>>)

\* max(with_dates, key=date): the first maximal element
MaxByDate(ms) ==
  ms[CHOOSE i \in 1..Len(ms) :
       /\ \A j \in 1..Len(ms) : ~DateLess(MessageDate(ms[i])[1], MessageDate(ms[j])[1])
       /\ \A j \in 1..(i-1) : DateLess(MessageDate(ms[j])[1], MessageDate(ms[i])[1])]

\* min(with_dates, key=date): the first minimal element
MinByDate(ms) ==
  ms[CHOOSE i \in 1..Len(ms) :
       /\ \A j \in 1..Len(ms) : ~DateLess(MessageDate(ms[j])[1], MessageDate(ms[i])[1])
       /\ \A j \in 1..(i-1) : DateLess(MessageDate(ms[i])[1], MessageDate(ms[j])[1])]

\* A selection that keeps the last member for a strategy it does not know.
select_message_to_keep_last(group, keep_strategy) ==
  CASE keep_strategy = "first" -> group[1]
    [] keep_strategy = "last" -> group[Len(group)]
    [] keep_strategy = "newest" ->
         IF WithDates(group) # <<>> THEN MaxByDate(WithDates(group)) ELSE group[1]
    [] keep_strategy = "oldest" ->
         IF WithDates(group) # <<>> THEN MinByDate(WithDates(group)) ELSE group[1]
    [] OTHER -> group[Len(group)]

\* DuplicateDetector._select_message_to_keep
select_message_to_keep(group, keep_strategy) ==
  CASE keep_strategy = "first" -> group[1]
    [] keep_strategy = "last" -> group[Len(group)]
    [] keep_strategy = "newest" ->
         IF WithDates(group) # <<>> THEN MaxByDate(WithDates(group)) ELSE group[1]
    [] keep_strategy = "oldest" ->
         IF WithDates(group) # <<>> THEN MinByDate(WithDates(group)) ELSE group[1]
    [] OTHER -> group[1]

\* A slip in the loop body: the unique branch taken for every message that is
\* not the first of its group (elif ... not in duplicate_groups -> else).
RemoveStepElse(messages, sigs, dups, keep_strategy, st, i) ==
  IF sigs[i] \in dups /\ sigs[i] \notin st.processed
  THEN [kept |-> Append(st.kept,
                   select_message_to_keep(SignatureGroup(messages, sigs, sigs[i]), keep_strategy)),
        processed |-> st.processed \cup {sigs[i]}]
  ELSE [kept |-> Append(st.kept, messages[i]), processed |-> st.processed]

\* A slip in the loop body: processed_signatures replaced instead of extended.
RemoveStepForget(messages, sigs, dups, keep_strategy, st, i) ==
  IF sigs[i] \in dups /\ sigs[i] \notin st.processed
  THEN [kept |-> Append(st.kept,
                   select_message_to_keep(SignatureGroup(messages, sigs, sigs[i]), keep_strategy)),
        processed |-> {sigs[i]}]
  ELSE IF sigs[i] \notin dups
  THEN [kept |-> Append(st.kept, messages[i]), processed |-> st.processed]
  ELSE st

\* A slip in the loop body: the survivor of a group appended where the group's
\* last member stands.
RemoveStepAtLast(messages, sigs, dups, keep_strategy, st, i) ==
  IF sigs[i] \in dups /\ (\A j \in (i + 1)..Len(sigs) : sigs[j] # sigs[i])
  THEN [kept |-> Append(st.kept,
                   select_message_to_keep(SignatureGroup(messages, sigs, sigs[i]), keep_strategy)),
        processed |-> st.processed \cup {sigs[i]}]
  ELSE IF sigs[i] \notin dups
  THEN [kept |-> Append(st.kept, messages[i]), processed |-> st.processed]
  ELSE st

\* One iteration of the loop of remove_duplicates, over messages[i] whose
\* signature is sigs[i]
RemoveStep(messages, sigs, dups, keep_strategy, st, i) ==
  IF sigs[i] \in dups /\ sigs[i] \notin st.processed
  THEN [kept |-> Append(st.kept,
                   select_message_to_keep(SignatureGroup(messages, sigs, sigs[i]), keep_strategy)),
        processed |-> st.processed \cup {sigs[i]}]
  ELSE IF sigs[i] \notin dups
  THEN [kept |-> Append(st.kept, messages[i]), processed |-> st.processed]
  ELSE st

RECURSIVE RemoveLoop(_, _, _, _, _, _)
RemoveLoop(messages, sigs, dups, keep_strategy, st, i) ==
  IF i > Len(messages) THEN st.kept
  ELSE RemoveLoop(messages, sigs, dups, keep_strategy,
                  RemoveStep(messages, sigs, dups, keep_strategy, st, i), i + 1)

\* DuplicateDetector.remove_duplicates
remove_duplicates(cfg, messages, keep_strategy) ==
  LET sigs == Signatures(cfg, messages)
      dups == DuplicateSignatures(sigs)
  IN IF dups = {} THEN messages
     ELSE RemoveLoop(messages, sigs, dups, keep_strategy,
                     [kept |-> <<>>, processed |-> {}], 1)

-----------------------------------------------------------------------------
(* The duplicate detector at work: a detector is constructed, configured,  *)
(* and remove_duplicates is applied to a list and then to its own output.  *)

\* Longest input list of remove_duplicates
MaxMsgs == 4

None == <<>>

Some(v) == <<v>>

\* Three records of one default signature, differing in case, padding, body
\* and dates: checking the body separates the second from the others, checking
\* the date separates the third (undated), and a tolerance of 1 minute also
\* separates the first two.
DedupPool ==
  { EmailMessage(<<"H","i">>, <<"a","@","x">>, << <<"u">> >>, <<"b","1">>,
                 Some(DateTime(1, 3, 10)), Some(DateTime(1, 9, 0)), <<"/","I">>, <<>>),
    EmailMessage(<<"h","i"," ">>, <<"A","@","x">>, << <<"U"," ">> >>, <<"b","2">>,
                 None, Some(DateTime(1, 4, 0)), <<"/","I">>, <<>>),
    EmailMessage(<<"H","i">>, <<"a","@","x">>, << <<"u">> >>, <<"b","1">>,
                 None, None, <<"/","S">>, <<>>) }

ListsOver(S, n) == UNION { [1..k -> S] : k \in 0..n }

Strategies == {"first", "last", "newest", "oldest", "other"}

Tolerances == {1, DefaultToleranceMinutes}

InitDedup ==
  /\ dd_config = DetectorInit
  /\ dd_messages \in ListsOver(DedupPool, MaxMsgs)
  /\ dd_strategy = "first"
  /\ dd_kept = <<>>
  /\ dd_kept2 = <<>>
  /\ dd_pc = "new"
  /\ FilterIdle /\ ParserIdle /\ ExtractIdle /\ FolderIdle /\ BatchIdle
  /\ NamesIdle /\ TrackerIdle

\* DuplicateDetector.configure
configure(cs, cf, cr, cb, cd, tol) ==
  /\ dd_pc = "new"
  /\ dd_config' = DetectorConfig(cs, cf, cr, cb, cd, tol)
  /\ dd_pc' = "ready"
  /\ UNCHANGED <<dd_messages, dd_strategy, dd_kept, dd_kept2>>
  /\ UNCHANGED notDd

\* kept = detector.remove_duplicates(messages, keep_strategy)
RemoveDuplicates(keep_strategy) ==
  /\ dd_pc \in {"new", "ready"}
  /\ dd_strategy' = keep_strategy
  /\ dd_kept' = remove_duplicates(dd_config, dd_messages, keep_strategy)
  /\ dd_pc' = "once"
  /\ UNCHANGED <<dd_config, dd_messages, dd_kept2>>
  /\ UNCHANGED notDd

\* kept2 = detector.remove_duplicates(kept, keep_strategy)
RemoveDuplicatesAgain ==
  /\ dd_pc = "once"
  /\ dd_kept2' = remove_duplicates(dd_config, dd_kept, dd_strategy)
  /\ dd_pc' = "twice"
  /\ UNCHANGED <<dd_config, dd_messages, dd_strategy, dd_kept>>
  /\ UNCHANGED notDd

NextDedup ==
  \/ \E cs, cf, cr, cb, cd \in BOOLEAN : \E tol \in Tolerances :
       configure(cs, cf, cr, cb, cd, tol)
  \/ \E k \in Strategies : RemoveDuplicates(k)
  \/ RemoveDuplicatesAgain

SpecDedup == InitDedup /\ [][NextDedup]_vars

SeqRange(q) == { q[i] : i \in 1..Len(q) }

CountIn(q, x) == Cardinality({ i \in 1..Len(q) : q[i] = x })

RECURSIVE SumOver(_, _)
SumOver(S, f) ==
  IF S = {} THEN 0
  ELSE LET x == CHOOSE y \in S : TRUE IN f[x] + SumOver(S \ {x}, f)

\* The sum over the duplicate groups of (group size - 1)
DuplicateSurplus(sigs) ==
  SumOver(DuplicateSignatures(sigs),
          [sig \in DuplicateSignatures(sigs) |-> CountIn(sigs, sig) - 1])

\* C1: for every configuration, keep strategy and input list, the output of
\* remove_duplicates holds each distinct signature of the input exactly once
\* (and no other signature), and its length is the input's length minus the
\* sum over the duplicate groups of (group size - 1).
C1_EachSignatureOnce ==
  dd_pc \in {"once", "twice"} =>
    LET in_sigs == Signatures(dd_config, dd_messages)
        out_sigs == Signatures(dd_config, dd_kept)
    IN /\ SeqRange(out_sigs) = SeqRange(in_sigs)
       /\ \A sig \in SeqRange(in_sigs) : CountIn(out_sigs, sig) = 1
       /\ Len(dd_kept) = Len(dd_messages) - DuplicateSurplus(in_sigs)

\* C1 witness: a deduplicated list with two duplicate groups, one of size 3,
\* under a configuration that checks the date.
C1_Witness ==
  /\ dd_pc = "once"
  /\ dd_config.check_date
  /\ Cardinality(find_duplicates(dd_config, dd_messages)) = 2
  /\ Len(dd_messages) - Len(dd_kept) = 2

\* C2: remove_duplicates applied to its own output returns the same sequence
\* of records, for every configuration, keep strategy and input list.
C2_Idempotent == dd_pc = "twice" => dd_kept2 = dd_kept

\* C2 witness: the second application ran on a list the first one shortened
\* with a strategy other than "first".
C2_Witness ==
  /\ dd_pc = "twice"
  /\ dd_strategy = "newest"
  /\ Len(dd_kept) < Len(dd_messages)
  /\ Len(dd_kept) >= 2

\* The places of the input where a signature occurs for the first time
FirstPlaces(sigs) == { i \in 1..Len(sigs) : \A j \in 1..(i - 1) : sigs[j] # sigs[i] }

\* The k-th of them
FirstPlace(sigs, k) ==
  CHOOSE i \in FirstPlaces(sigs) : Cardinality({ j \in FirstPlaces(sigs) : j <= i }) = k

\* The records of the input that share the signature of the record at place i
MembersAt(messages, sigs, i) == { messages[j] : j \in { n \in 1..Len(sigs) : sigs[n] = sigs[i] } }

\* C15: remove_duplicates preserves input order: the output has one record
\* for each place where a signature first occurs, in the order of those places;
\* the record is the input record itself when it is unique, and a member of
\* the duplicate group that starts there otherwise.
C15_OrderPreserved ==
  dd_pc \in {"once", "twice"} =>
    LET sigs == Signatures(dd_config, dd_messages)
    IN /\ Len(dd_kept) = Cardinality(FirstPlaces(sigs))
       /\ \A k \in 1..Len(dd_kept) :
            dd_kept[k] \in MembersAt(dd_messages, sigs, FirstPlace(sigs, k))

\* A list was deduplicated in which a unique record stands between two
\* members of a group and after the first member of another group.
C15_Witness ==
  /\ dd_pc = "once"
  /\ Len(dd_messages) = 4
  /\ Len(dd_kept) = 2
  /\ LET sigs == Signatures(dd_config, dd_messages)
     IN /\ sigs[1] = sigs[3]
        /\ sigs[2] = sigs[4]
        /\ sigs[1] # sigs[2]

\* The members of the duplicate group that starts at place i, in input order
GroupAt(messages, sigs, i) ==
  SelectSeq(messages, LAMBDA m : m \in MembersAt(messages, sigs, i))

\* The date a survivor is chosen by: sent_time if there is one, else
\* received_time
DateOf(m) == IF m.sent_time # <<>> THEN m.sent_time ELSE m.received_time

\* C16: the record kept for a duplicate group is: with 'first' the group's
\* first member in input order; with 'last' its last; with 'newest' a member
\* that has a date and whose date no dated member exceeds; with 'oldest' a
\* dated member whose date is below no dated member's; the first member when
\* 'newest' or 'oldest' finds no dated member, and for every other strategy
\* name.  It is always a member of the group.
C16_SurvivorSelection ==
  dd_pc \in {"once", "twice"} =>
    LET sigs == Signatures(dd_config, dd_messages)
    IN \A k \in 1..Len(dd_kept) :
         LET group == GroupAt(dd_messages, sigs, FirstPlace(sigs, k))
             dated == { n \in 1..Len(group) : DateOf(group[n]) # <<>> }
             kept == dd_kept[k]
         IN Len(group) > 1 =>
              /\ \E n \in 1..Len(group) : kept = group[n]
              /\ dd_strategy = "first" => kept = group[1]
              /\ dd_strategy = "last" => kept = group[Len(group)]
              /\ dd_strategy = "newest" /\ dated # {} =>
                   /\ DateOf(kept) # <<>>
                   /\ \A n \in dated : ~ DateLess(DateOf(kept)[1], DateOf(group[n])[1])
              /\ dd_strategy = "oldest" /\ dated # {} =>
                   /\ DateOf(kept) # <<>>
                   /\ \A n \in dated : ~ DateLess(DateOf(group[n])[1], DateOf(kept)[1])
              /\ dd_strategy \in {"newest", "oldest"} /\ dated = {} => kept = group[1]
              /\ dd_strategy \notin {"first", "last", "newest", "oldest"} => kept = group[1]

\* A group of three was deduplicated with 'newest': its first member has a
\* sent time and a later received time, its second a received time between
\* the two, its third no date; the second was kept.
C16_Witness ==
  /\ dd_pc = "once"
  /\ dd_strategy = "newest"
  /\ Len(dd_messages) = 3
  /\ Len(dd_kept) = 1
  /\ dd_messages[1].sent_time # <<>> /\ dd_messages[1].received_time # <<>>
  /\ dd_messages[2].sent_time = <<>> /\ dd_messages[2].received_time # <<>>
  /\ DateOf(dd_messages[3]) = <<>>
  /\ dd_kept[1] = dd_messages[2]

\* A body of n + 1 characters: n times "b", then the character last
LongBody(n, last) == [i \in 1..(n + 1) |-> IF i <= n THEN "b" ELSE last]

\* Records alike in sender and recipients: two whose bodies part only after
\* the first 100 characters, one without a subject and one whose subject is a
\* single space
SignaturePool ==
  { EmailMessage(<<"H","i">>, <<"a","@","x">>, << <<"u">> >>, LongBody(BodyPreviewLen, "1"),
                 None, Some(DateTime(1, 4, 0)), <<"/","I">>, <<>>),
    EmailMessage(<<"H","i">>, <<"a","@","x">>, << <<"u">> >>, LongBody(BodyPreviewLen, "2"),
                 None, Some(DateTime(1, 4, 0)), <<"/","S">>, <<>>),
    EmailMessage(<<>>, <<"a","@","x">>, << <<"u">> >>, LongBody(BodyPreviewLen, "1"),
                 None, Some(DateTime(1, 4, 0)), <<"/","I">>, <<>>),
    EmailMessage(<<" ">>, <<"a","@","x">>, << <<"u">> >>, LongBody(BodyPreviewLen, "1"),
                 None, Some(DateTime(1, 4, 0)), <<"/","I">>, <<>>) }

\* Two records whose signatures are compared
InitSignature ==
  /\ dd_config = DetectorInit
  /\ dd_messages \in [1..2 -> SignaturePool]
  /\ dd_strategy = "first"
  /\ dd_kept = <<>>
  /\ dd_kept2 = <<>>
  /\ dd_pc = "new"
  /\ FilterIdle /\ ParserIdle /\ ExtractIdle /\ FolderIdle /\ BatchIdle
  /\ NamesIdle /\ TrackerIdle

SpecSignature == InitSignature /\ [][NextDedup]_vars

\* The fields the configuration enables, in signature order
EnabledFields(cfg) ==
  SelectSeq(<<"subject", "sender", "recipients", "body", "date">>,
            LAMBDA f : CASE f = "subject" -> cfg.check_subject
                         [] f = "sender" -> cfg.check_sender
                         [] f = "recipients" -> cfg.check_recipients
                         [] f = "body" -> cfg.check_body
                         [] f = "date" -> cfg.check_date)

\* The normalized component of a field: case-folded and trimmed text, the
\* sorted recipients, the first 100 characters of the body, the date's
\* tolerance window
Component(cfg, f, m) ==
  CASE f = "subject" -> Strip(Lower(m.subject))
    [] f = "sender" -> Strip(Lower(m.sender))
    [] f = "recipients" ->
         SortedStrs([i \in 1..Len(m.recipients) |-> Strip(Lower(m.recipients[i]))])
    [] f = "body" -> Strip(Lower(Prefix(Or(m.body_text, m.body_html), BodyPreviewLen)))
    [] f = "date" -> IF MessageDate(m) = <<>> THEN <<>>
                     ELSE <<DateRounded(MessageDate(m)[1], cfg.date_tolerance_minutes)>>

\* C26: the signature of a record has one part for each enabled field and
\* none for a disabled one, and two records have the same signature exactly
\* when their normalized components agree for every enabled field; seen
\* when remove_duplicates has grouped the records by signature.
C26_SignatureComponents ==
  dd_pc = "once" => \A i, j \in 1..Len(dd_messages) :
    /\ Len(SignatureParts(dd_config, dd_messages[i])) = Len(EnabledFields(dd_config))
    /\ (get_message_signature(dd_config, dd_messages[i])
          = get_message_signature(dd_config, dd_messages[j]))
       <=> \A k \in 1..Len(EnabledFields(dd_config)) :
             Component(dd_config, EnabledFields(dd_config)[k], dd_messages[i])
               = Component(dd_config, EnabledFields(dd_config)[k], dd_messages[j])

-----------------------------------------------------------------------------
(* MessageFilter (filters.py)                                              *)

\* MessageFilter.__init__
FilterInit ==
  [date_from |-> <<>>, date_to |-> <<>>,
   sender_filters |-> <<>>, subject_filters |-> <<>>, folder_filters |-> <<>>,
   has_attachments |-> <<>>, attachment_types |-> <<>>,
   size_min |-> <<>>, size_max |-> <<>>, exclude_folders |-> <<>>]

\* A pattern that was stored without lower().
StoredPatternRaw(pattern) == pattern

\* The pattern as add_*_filter and exclude_folder store it: pattern.lower()
StoredPattern(pattern) == Lower(pattern)

\* any(pattern in text for pattern in patterns)
AnyPatternIn(patterns, text) ==
  \E i \in 1..Len(patterns) : Contains(patterns[i], text)

\* A date check that rejects a message without dates.
check_date_range_strict(f, m) ==
  IF f.date_from = <<>> /\ f.date_to = <<>> THEN TRUE
  ELSE LET message_date == Or(m.sent_time, m.received_time)
       IN IF message_date = <<>> THEN FALSE
          ELSE IF f.date_from # <<>> /\ DateLess(message_date[1], f.date_from[1]) THEN FALSE
          ELSE IF f.date_to # <<>> /\ DateLess(f.date_to[1], message_date[1]) THEN FALSE
          ELSE TRUE

\* MessageFilter._check_date_range
check_date_range(f, m) ==
  IF f.date_from = <<>> /\ f.date_to = <<>> THEN TRUE
  ELSE LET message_date == Or(m.sent_time, m.received_time)
       IN IF message_date = <<>> THEN TRUE
          ELSE IF f.date_from # <<>> /\ DateLess(message_date[1], f.date_from[1]) THEN FALSE
          ELSE IF f.date_to # <<>> /\ DateLess(f.date_to[1], message_date[1]) THEN FALSE
          ELSE TRUE

\* A sender check that treats the patterns as exclusions.
check_sender_filters_excluding(f, m) ==
  IF f.sender_filters = <<>> THEN TRUE
  ELSE ~AnyPatternIn(f.sender_filters, Lower(m.sender))

\* MessageFilter._check_sender_filters
check_sender_filters(f, m) ==
  IF f.sender_filters = <<>> THEN TRUE
  ELSE AnyPatternIn(f.sender_filters, Lower(m.sender))

\* MessageFilter._check_subject_filters
check_subject_filters(f, m) ==
  IF f.subject_filters = <<>> THEN TRUE
  ELSE AnyPatternIn(f.subject_filters, Lower(m.subject))

\* MessageFilter._check_folder_filters
check_folder_filters(f, m) ==
  IF f.folder_filters = <<>> THEN TRUE
  ELSE AnyPatternIn(f.folder_filters, Lower(m.folder_path))

\* An exclusion check that gives way to a folder filter that is satisfied.
check_folder_exclusions_overridden(f, m) ==
  IF f.exclude_folders = <<>> THEN TRUE
  ELSE IF f.folder_filters # <<>> /\ AnyPatternIn(f.folder_filters, Lower(m.folder_path)) THEN TRUE
  ELSE ~AnyPatternIn(f.exclude_folders, Lower(m.folder_path))

\* MessageFilter._check_folder_exclusions
check_folder_exclusions(f, m) ==
  IF f.exclude_folders = <<>> THEN TRUE
  ELSE ~AnyPatternIn(f.exclude_folders, Lower(m.folder_path))

\* name.split('.')[-1]: the text after the last dot
AfterLastDot(name) ==
  LET k == CHOOSE i \in 1..Len(name) :
             name[i] = "." /\ \A j \in (i+1)..Len(name) : name[j] # "."
  IN SubSeq(name, k + 1, Len(name))

\* message_extensions of _check_attachment_filters
MessageExtensions(m) ==
  { Lower(AfterLastDot(m.attachments[i].name)) :
      i \in { j \in 1..Len(m.attachments) : Contains(<<".">>, m.attachments[j].name) } }

\* An attachment check that also rejects a record with an attachment smaller
\* than size_min or larger than size_max
check_attachment_filters_sized(f, m) ==
  ~\E i \in 1..Len(m.attachments) :
     \/ f.size_min # <<>> /\ m.attachments[i].size < f.size_min[1]
     \/ f.size_max # <<>> /\ m.attachments[i].size > f.size_max[1]

\* MessageFilter._check_attachment_filters
check_attachment_filters(f, m) ==
  IF f.has_attachments = <<>> /\ f.attachment_types = <<>> THEN TRUE
  ELSE LET has_attachments == m.attachments # <<>>
       IN IF f.has_attachments # <<>> /\ f.has_attachments[1] # has_attachments THEN FALSE
          ELSE IF /\ f.attachment_types # <<>>
                  /\ has_attachments
                  /\ ~\E i \in 1..Len(f.attachment_types) :
                        f.attachment_types[i] \in MessageExtensions(m)
          THEN FALSE
          ELSE TRUE

\* The checks of MessageFilter.matches in the order it runs them; a check after
\* the first failing one is not run (None).
MatchChecks(f, m) ==
  LET d == check_date_range(f, m)
      s == d /\ check_sender_filters(f, m)
      j == s /\ check_subject_filters(f, m)
      o == j /\ check_folder_filters(f, m)
      x == o /\ check_folder_exclusions(f, m)
      a == x /\ check_attachment_filters(f, m)
  IN [date |-> <<d>>,
      sender |-> IF d THEN <<s>> ELSE <<>>,
      subject |-> IF s THEN <<j>> ELSE <<>>,
      folder |-> IF j THEN <<o>> ELSE <<>>,
      exclusion |-> IF o THEN <<x>> ELSE <<>>,
      attachment |-> IF x THEN <<a>> ELSE <<>>,
      matches |-> a]

\* MessageFilter.matches
matches(f, m) == MatchChecks(f, m).matches

\* ext.lower().strip('.')
StripDots(s) ==
  IF \A i \in 1..Len(s) : s[i] = "." THEN <<>>
  ELSE LET a == CHOOSE i \in 1..Len(s) : s[i] # "." /\ \A j \in 1..(i-1) : s[j] = "."
           b == CHOOSE i \in 1..Len(s) : s[i] # "." /\ \A j \in (i+1)..Len(s) : s[j] = "."
       IN SubSeq(s, a, b)

-----------------------------------------------------------------------------
(* The filter at work: a filter is constructed, set up by at most          *)
(* MaxFilterCalls setter calls, and matches is evaluated on one message.   *)

\* Most setter calls made on one filter
MaxFilterCalls == 3

Str_spam == <<"@","s","p","a","m",".","c","o","m">>
Str_bob_spam == <<"B","o","b"," ","<","b","o","b","@","s","p","a","m",".","c","o","m",">">>
Str_bob_good == <<"B","o","b"," ","<","b","o","b","@","g","o","o","d",".","c","o","m",">">>
Str_Inbox == <<"/","I","n","b","o","x">>
Str_Junk == <<"/","J","u","n","k">>

FilterDates == { DateTime(1, 0, 0), DateTime(2, 0, 0), DateTime(3, 0, 0) }

SenderPatterns == { Str_spam, <<"B","O","B">> }
SubjectPatterns == { <<"H","I">>, <<"x">> }
FolderPatterns == { <<"I","N","B","O","X">>, <<>> }
ExcludePatterns == { <<"J","U","N","K">>, <<"/">> }
TypeLists == { <<>>, << <<".","P","D","F">> >> }
Sizes == { <<>>, <<10>> }

Attachment(name) == [name |-> name, size |-> 1, type |-> <<"f">>]

\* Records with every combination the checks distinguish: a sender that holds
\* or lacks the spam domain, empty fields, sent and received dates on both
\* sides of a range, and an attachment with an upper-case extension.
FilterPool ==
  { EmailMessage(<<"H","i">>, Str_bob_spam, <<>>, <<>>,
                 Some(DateTime(2, 0, 0)), None, Str_Inbox, <<>>),
    EmailMessage(<<"h","i"," ","x">>, Str_bob_good, <<>>, <<>>,
                 None, Some(DateTime(1, 0, 0)), Str_Junk, <<>>),
    EmailMessage(<<>>, <<>>, <<>>, <<>>, None, None, <<>>,
                 << Attachment(<<"a",".","P","d","f">>) >>),
    EmailMessage(<<"Y","o">>, Str_bob_good, <<>>, <<>>,
                 Some(DateTime(1, 0, 0)), Some(DateTime(3, 0, 0)), Str_Inbox,
                 << Attachment(<<"n","o","e","x","t">>) >>),
    EmailMessage(<<"Y","o">>, Str_bob_spam, <<>>, <<>>, None, None, Str_Junk, <<>>) }

NoChecks ==
  [date |-> <<>>, sender |-> <<>>, subject |-> <<>>, folder |-> <<>>,
   exclusion |-> <<>>, attachment |-> <<>>, matches |-> FALSE]

NoAdded == [sender |-> <<>>, subject |-> <<>>, folder |-> <<>>]

InitFilter ==
  /\ mf = FilterInit
  /\ mf_added = NoAdded
  /\ mf_calls = 0
  /\ mf_message \in FilterPool
  /\ mf_checks = NoChecks
  /\ mf_pc = "setup"
  /\ DedupIdle /\ ParserIdle /\ ExtractIdle /\ FolderIdle /\ BatchIdle
  /\ NamesIdle /\ TrackerIdle

\* What every setter call of the experiment shares
Setter ==
  /\ mf_pc = "setup"
  /\ mf_calls < MaxFilterCalls
  /\ mf_calls' = mf_calls + 1
  /\ UNCHANGED <<mf_message, mf_checks, mf_pc>>
  /\ UNCHANGED notMf

\* MessageFilter.set_date_range
set_date_range(date_from, date_to) ==
  /\ Setter
  /\ mf' = [mf EXCEPT !.date_from = date_from, !.date_to = date_to]
  /\ UNCHANGED mf_added

\* MessageFilter.add_sender_filter
add_sender_filter(sender_pattern) ==
  /\ Setter
  /\ mf' = [mf EXCEPT !.sender_filters = Append(@, StoredPattern(sender_pattern))]
  /\ mf_added' = [mf_added EXCEPT !.sender = Append(@, sender_pattern)]

\* MessageFilter.add_subject_filter
add_subject_filter(subject_pattern) ==
  /\ Setter
  /\ mf' = [mf EXCEPT !.subject_filters = Append(@, StoredPattern(subject_pattern))]
  /\ mf_added' = [mf_added EXCEPT !.subject = Append(@, subject_pattern)]

\* MessageFilter.add_folder_filter
add_folder_filter(folder_pattern) ==
  /\ Setter
  /\ mf' = [mf EXCEPT !.folder_filters = Append(@, StoredPattern(folder_pattern))]
  /\ mf_added' = [mf_added EXCEPT !.folder = Append(@, folder_pattern)]

\* MessageFilter.exclude_folder
exclude_folder(folder_pattern) ==
  /\ Setter
  /\ mf' = [mf EXCEPT !.exclude_folders = Append(@, StoredPattern(folder_pattern))]
  /\ UNCHANGED mf_added

\* MessageFilter.set_attachment_filter: attachment_types is replaced only by a
\* non-empty list
set_attachment_filter(has_attachments, attachment_types) ==
  /\ Setter
  /\ mf' = [mf EXCEPT
              !.has_attachments = has_attachments,
              !.attachment_types =
                 IF attachment_types # <<>>
                 THEN [i \in 1..Len(attachment_types) |-> StripDots(Lower(attachment_types[i]))]
                 ELSE @]
  /\ UNCHANGED mf_added

\* MessageFilter.set_size_filter
set_size_filter(size_min, size_max) ==
  /\ Setter
  /\ mf' = [mf EXCEPT !.size_min = size_min, !.size_max = size_max]
  /\ UNCHANGED mf_added

\* result = filter.matches(message)
Matches ==
  /\ mf_pc = "setup"
  /\ mf_checks' = MatchChecks(mf, mf_message)
  /\ mf_pc' = "matched"
  /\ UNCHANGED <<mf, mf_added, mf_calls, mf_message>>
  /\ UNCHANGED notMf

NextFilter ==
  \/ \E a, b \in {None} \cup { Some(d) : d \in FilterDates } : set_date_range(a, b)
  \/ \E pat \in SenderPatterns : add_sender_filter(pat)
  \/ \E pat \in SubjectPatterns : add_subject_filter(pat)
  \/ \E pat \in FolderPatterns : add_folder_filter(pat)
  \/ \E pat \in ExcludePatterns : exclude_folder(pat)
  \/ \E h \in {None, Some(TRUE), Some(FALSE)} : \E t \in TypeLists : set_attachment_filter(h, t)
  \/ \E a, b \in Sizes : set_size_filter(a, b)
  \/ Matches

SpecFilter == InitFilter /\ [][NextFilter]_vars

\* p occurs in text when case is ignored
CaseInsensitiveSubstring(pattern, text) ==
  \E off \in 0..(Len(text) - Len(pattern)) :
    \A k \in 1..Len(pattern) : LowerChar(pattern[k]) = LowerChar(text[off + k])

AnyAddedOccurs(added, text) ==
  \E i \in 1..Len(added) : CaseInsensitiveSubstring(added[i], text)

\* Only the sender pattern '@spam.com' is configured.
OnlySpamSenderPattern ==
  /\ mf_pc = "matched"
  /\ mf_added.sender = << Str_spam >>
  /\ mf = [FilterInit EXCEPT !.sender_filters = mf.sender_filters]

\* C5 as stated: with the single sender pattern '@spam.com' the record from
\* 'Bob <bob@spam.com>' is rejected and the record from 'Bob <bob@good.com>' is
\* retained.
C5_AsStated ==
  OnlySpamSenderPattern =>
    /\ mf_message.sender = Str_bob_spam => ~mf_checks.matches
    /\ mf_message.sender = Str_bob_good => mf_checks.matches

\* C5 as the code has it: with the single sender pattern '@spam.com' the record
\* from 'Bob <bob@spam.com>' is retained and the record from
\* 'Bob <bob@good.com>' is rejected.
C5_SenderPatternIncludes ==
  OnlySpamSenderPattern =>
    /\ mf_message.sender = Str_bob_spam => mf_checks.matches
    /\ mf_message.sender = Str_bob_good => ~mf_checks.matches

\* C5 witness: matches has rejected the record from bob@good.com under the
\* single pattern '@spam.com'.
C5_Witness ==
  /\ OnlySpamSenderPattern
  /\ mf_message.sender = Str_bob_good
  /\ ~mf_checks.matches

InDateRange(d) ==
  /\ mf.date_from # <<>> => ~DateLess(d, mf.date_from[1])
  /\ mf.date_to # <<>> => ~DateLess(mf.date_to[1], d)

\* C8: whatever the date range, the date check of matches passes a record with
\* neither sent_time nor received_time; a record with a timestamp is tested on
\* sent_time when present, else on received_time.
C8_DateRange ==
  mf_pc = "matched" =>
    /\ mf_message.sent_time = <<>> /\ mf_message.received_time = <<>>
         => mf_checks.date = <<TRUE>>
    /\ mf_message.sent_time # <<>>
         => mf_checks.date = << InDateRange(mf_message.sent_time[1]) >>
    /\ mf_message.sent_time = <<>> /\ mf_message.received_time # <<>>
         => mf_checks.date = << InDateRange(mf_message.received_time[1]) >>

\* C8 witness: a record without dates was matched under a date range with both
\* ends set, and passed the date check.
C8_Witness ==
  /\ mf_pc = "matched"
  /\ mf.date_from # <<>> /\ mf.date_to # <<>>
  /\ mf_message.sent_time = <<>> /\ mf_message.received_time = <<>>
  /\ mf_checks.date = <<TRUE>>

\* C9: for the sender, subject and folder pattern sets: the check passes when
\* the set is empty; otherwise it passes iff a pattern given to the
\* add_*_filter occurs in the record's field when case is ignored.
C9_PatternSets ==
  mf_pc = "matched" =>
    /\ mf_checks.sender # <<>> =>
         mf_checks.sender[1] =
           (mf_added.sender = <<>> \/ AnyAddedOccurs(mf_added.sender, mf_message.sender))
    /\ mf_checks.subject # <<>> =>
         mf_checks.subject[1] =
           (mf_added.subject = <<>> \/ AnyAddedOccurs(mf_added.subject, mf_message.subject))
    /\ mf_checks.folder # <<>> =>
         mf_checks.folder[1] =
           (mf_added.folder = <<>> \/ AnyAddedOccurs(mf_added.folder, mf_message.folder_path))

\* C9 witness: an upper-case pattern matched a mixed-case sender, with a second
\* pattern that does not occur.
C9_Witness ==
  /\ mf_pc = "matched"
  /\ Len(mf_added.sender) = 2
  /\ mf_added.sender[2] = <<"B","O","B">>
  /\ mf_added.sender[1] = Str_spam
  /\ mf_message.sender = Str_bob_good
  /\ mf_checks.sender = <<TRUE>>

\* Some exclusion pattern of the filter occurs in the record's folder path
\* when case is ignored
Excluded ==
  \E i \in 1..Len(mf.exclude_folders) :
    CaseInsensitiveSubstring(mf.exclude_folders[i], mf_message.folder_path)

\* C17: matches is a conjunction: the record is retained iff the date, sender,
\* subject, folder, exclusion and attachment predicates all hold; and a record
\* whose folder path holds an exclusion pattern, case ignored, is rejected
\* whatever inclusion filters it satisfies.
C17_Conjunction ==
  mf_pc = "matched" =>
    /\ mf_checks.matches =
         ( /\ check_date_range(mf, mf_message)
           /\ check_sender_filters(mf, mf_message)
           /\ check_subject_filters(mf, mf_message)
           /\ check_folder_filters(mf, mf_message)
           /\ ~ Excluded
           /\ check_attachment_filters(mf, mf_message) )
    /\ Excluded => ~ mf_checks.matches

\* A record in /Junk that satisfies the folder filter and the sender filter
\* set on the filter was rejected, the exclusion pattern JUNK being set.
C17_Witness ==
  /\ mf_pc = "matched"
  /\ mf.folder_filters # <<>> /\ check_folder_filters(mf, mf_message)
  /\ mf.sender_filters # <<>> /\ check_sender_filters(mf, mf_message)
  /\ mf.exclude_folders = << <<"j","u","n","k">> >>
  /\ mf_message.folder_path = Str_Junk
  /\ ~ mf_checks.matches


\* The filter with size_min and size_max set to a and b
WithSizes(f, a, b) == [f EXCEPT !.size_min = a, !.size_max = b]

-----------------------------------------------------------------------------
(* PSTParser: construction, open, close, with-block (pst_parser.py)        *)

\* PSTParser.UNICODE_PST = 0x17
UNICODE_PST == 23

\* PSTParser.ANSI_PST = 0x0E
ANSI_PST == 14

\* The bytes _read_header reads: file_handle.read(512)
HeaderSize == 512

\* An archive file: whether its first 4 bytes are b'!BDN', its length in
\* bytes, and its bytes at offsets 10 and 11 (read only when they exist).
ArchiveFile(sig_ok, length, b10, b11) ==
  [sig_ok |-> sig_ok, length |-> length, b10 |-> b10, b11 |-> b11, marks |-> {}]

\* The type code read with the two bytes swapped (big-endian).
FileTypeSwapped(file) == file.b10 * 256 + file.b11

\* struct.unpack('<H', header_data[10:12])[0]
FileType(file) == file.b10 + 256 * file.b11

\* Whether _read_header raises: a wrong signature, fewer than 12 bytes
\* (struct.error), or a type code that is neither UNICODE_PST nor ANSI_PST
ReadHeaderRaises(file) ==
  \/ ~file.sig_ok
  \/ file.length < 12
  \/ FileType(file) \notin {UNICODE_PST, ANSI_PST}

\* The position of the handle after file_handle.read(512)
AfterHeaderRead(file) == IF file.length < HeaderSize THEN file.length ELSE HeaderSize

LastCall(op, raised) == [op |-> op, raised |-> raised, body_raised |-> FALSE]

\* PSTParser.__init__ with _validate_file on an existing file
Construct ==
  /\ ps_pc = "none"
  /\ IF ps_file.sig_ok
     THEN /\ ps_pc' = "constructed"
          /\ ps_last' = LastCall("init", FALSE)
     ELSE /\ ps_pc' = "invalid"
          /\ ps_last' = LastCall("init", TRUE)
  /\ ps_file_handle' = <<>>
  /\ ps_is_unicode' = FALSE
  /\ ps_header' = <<>>
  /\ UNCHANGED <<ps_file, ps_with>>
  /\ UNCHANGED notPs

\* The parser fields after open() of PSTParser, with _read_header
OpenEffect(op) ==
  IF ReadHeaderRaises(ps_file)
  THEN \* except: the handle just opened is closed and dropped, and e re-raised
       /\ ps_file_handle' = <<>>
       /\ ps_last' = LastCall(op, TRUE)
       /\ UNCHANGED <<ps_is_unicode, ps_header>>
  ELSE /\ ps_file_handle' = << AfterHeaderRead(ps_file) >>
       /\ ps_is_unicode' = (FileType(ps_file) = UNICODE_PST)
       /\ ps_header' = << [file_type |-> FileType(ps_file),
                           is_unicode |-> FileType(ps_file) = UNICODE_PST,
                           file_size |-> ps_file.length] >>
       /\ ps_last' = LastCall(op, FALSE)

\* A close() that closes the file and keeps the reference to it.
CloseEffectKeepsHandle(op, body_raised) ==
  /\ ps_file_handle' = ps_file_handle
  /\ ps_last' = [op |-> op, raised |-> FALSE, body_raised |-> body_raised]
  /\ UNCHANGED <<ps_is_unicode, ps_header>>

\* The parser fields after close() of PSTParser
CloseEffect(op, body_raised) ==
  /\ ps_file_handle' = (IF ps_file_handle # <<>> THEN <<>> ELSE ps_file_handle)
  /\ ps_last' = [op |-> op, raised |-> FALSE, body_raised |-> body_raised]
  /\ UNCHANGED <<ps_is_unicode, ps_header>>

\* parser.open()
Open ==
  /\ ps_pc = "constructed"
  /\ ~ps_with
  /\ OpenEffect("open")
  /\ UNCHANGED <<ps_file, ps_pc, ps_with>>
  /\ UNCHANGED notPs

\* parser.close()
Close ==
  /\ ps_pc = "constructed"
  /\ ~ps_with
  /\ CloseEffect("close", FALSE)
  /\ UNCHANGED <<ps_file, ps_pc, ps_with>>
  /\ UNCHANGED notPs

\* with parser: __enter__ calls open(); the block is entered only if open()
\* returned
WithEnter ==
  /\ ps_pc = "constructed"
  /\ ~ps_with
  /\ OpenEffect("enter")
  /\ ps_with' = ~ReadHeaderRaises(ps_file)
  /\ UNCHANGED <<ps_file, ps_pc>>
  /\ UNCHANGED notPs

\* The block ends, by falling off its end or by an exception: __exit__ calls
\* close() and returns None, so an exception of the block propagates.
WithExit(body_raised) ==
  /\ ps_with
  /\ CloseEffect("exit", body_raised)
  /\ ps_with' = FALSE
  /\ UNCHANGED <<ps_file, ps_pc>>
  /\ UNCHANGED notPs

\* close() called inside the with-block
CloseInBlock ==
  /\ ps_with
  /\ CloseEffect("close", FALSE)
  /\ UNCHANGED <<ps_file, ps_pc, ps_with>>
  /\ UNCHANGED notPs

FileLengths == {4, 11, 12, HeaderSize, 600}

TypeBytes == {0, 1, ANSI_PST, UNICODE_PST}

InitParser ==
  /\ ps_file \in { ArchiveFile(ok, len, b10, b11) :
                     ok \in BOOLEAN, len \in FileLengths, b10 \in TypeBytes, b11 \in {0, 1} }
  /\ ps_pc = "none"
  /\ ps_file_handle = <<>>
  /\ ps_is_unicode = FALSE
  /\ ps_header = <<>>
  /\ ps_with = FALSE
  /\ ps_last = LastCall("none", FALSE)
  /\ DedupIdle /\ FilterIdle /\ ExtractIdle /\ FolderIdle /\ BatchIdle
  /\ NamesIdle /\ TrackerIdle

NextParser ==
  \/ Construct
  \/ Open
  \/ Close
  \/ WithEnter
  \/ \E body_raised \in BOOLEAN : WithExit(body_raised)
  \/ CloseInBlock

SpecParser == InitParser /\ [][NextParser]_vars

\* The archive has a type code (12 bytes or more) and it is "code".
HasTypeCode(code) == ps_file.length >= 12 /\ ps_file.b10 + 256 * ps_file.b11 = code

\* C6: open() on a validated archive sets is_unicode = TRUE when the 16-bit
\* little-endian type code at offset 10 is 0x17 and FALSE when it is 0x0E, and
\* otherwise raises and leaves file_handle None; is_unicode is FALSE until the
\* first open().
C6_OpenSelectsEncoding ==
  /\ ps_last.op \in {"open", "enter"} =>
       /\ HasTypeCode(23) => ~ps_last.raised /\ ps_is_unicode = TRUE /\ ps_file_handle # <<>>
       /\ HasTypeCode(14) => ~ps_last.raised /\ ps_is_unicode = FALSE /\ ps_file_handle # <<>>
       /\ ~HasTypeCode(23) /\ ~HasTypeCode(14) => ps_last.raised /\ ps_file_handle = <<>>
  /\ ps_last.op \in {"none", "init"} => ps_is_unicode = FALSE

\* C6 witness: open() has returned on a Unicode archive.
C6_Witness ==
  /\ ps_last.op = "open"
  /\ HasTypeCode(23)
  /\ ps_is_unicode
  /\ ps_file_handle # <<>>

\* C7: close() never raises and leaves file_handle None, from every state of
\* the parser and when called by __exit__ at the end of a with-block, however
\* the block ended; a close() after a close() changes nothing.
C7_CloseIdempotent ==
  [][ps_last'.op \in {"close", "exit"} =>
       /\ ~ps_last'.raised
       /\ ps_file_handle' = <<>>
       /\ ps_last.op \in {"close", "exit"} =>
            <<ps_file_handle, ps_is_unicode, ps_header>>' = <<ps_file_handle, ps_is_unicode, ps_header>>
    ]_vars

\* C7 witness: a with-block on an open parser was left by an exception, and
\* the handle is gone.
C7_Witness ==
  /\ ps_last.op = "exit"
  /\ ps_last.body_raised
  /\ ps_file_handle = <<>>
  /\ ps_header # <<>>

-----------------------------------------------------------------------------
(* PSTParser.extract_messages and the fallback scan (pst_parser.py)        *)

\* chunk_size of _parse_pst_basic
ChunkSize == 8192

\* "while message_count < 10"
ScanCap == 10

\* "seek(current_pos - 100)"
ScanOverlap == 100

\* len(b'Subject:')
SubjectLabelLen == 8

\* max_length of _extract_text_pattern(chunk, b'Subject:', 50)
SubjectMaxLen == 50

\* The bytes of a file that the scan can tell from padding are its marks: a
\* mark [at, kind] is a lone b'@' at offset "at" (kind "at"), or the bytes
\* b'Subject:Hello\n' starting there (kind "subject").
Mark(at, kind) == [at |-> at, kind |-> kind]

\* len(b'Hello')
SubjectTextLen == 5

MarkLen(mark) == IF mark.kind = "at" THEN 1 ELSE SubjectLabelLen

\* The bytes a mark occupies in the file, the text and its newline included
MarkBytes(mark) == IF mark.kind = "at" THEN 1 ELSE SubjectLabelLen + SubjectTextLen + 1

\* len(chunk) for chunk = file_handle.read(chunk_size) at position pos
ChunkLen(file, pos) ==
  IF pos >= file.length THEN 0
  ELSE IF file.length - pos < ChunkSize THEN file.length - pos ELSE ChunkSize

\* The marks whose indicator bytes lie inside the chunk read at pos
MarksIn(file, pos) ==
  { mark \in file.marks :
      mark.at >= pos /\ mark.at + MarkLen(mark) <= pos + ChunkLen(file, pos) }

\* PSTParser._contains_email_pattern
contains_email_pattern(file, pos) == MarksIn(file, pos) # {}

\* PSTParser._extract_text_pattern(chunk, b'Subject:', 50): None, or the length
\* of the text found after the first b'Subject:' of the chunk
extract_subject(file, pos) ==
  LET subjects == { mark \in MarksIn(file, pos) : mark.kind = "subject" }
  IN IF subjects = {} THEN <<>>
     ELSE LET first == CHOOSE mark \in subjects : \A other \in subjects : mark.at <= other.at
              room == pos + ChunkLen(file, pos) - (first.at + SubjectLabelLen)
              shown == IF room < SubjectTextLen THEN room ELSE SubjectTextLen
              text == IF shown < SubjectMaxLen THEN shown ELSE SubjectMaxLen
          IN IF text > 2 THEN <<text>> ELSE <<>>

\* The position the next read starts at, after the chunk read at pos:
\* current_pos = tell(); if current_pos >= len(chunk): seek(current_pos - 100)
NextReadPos(file, pos) ==
  LET current_pos == pos + ChunkLen(file, pos)
  IN IF current_pos >= ChunkLen(file, pos) THEN current_pos - ScanOverlap ELSE current_pos

\* A folder of the library's tree.  access is what reaching it does:
\* get_sub_folder returns it ("ok"), raises ("raises"), returns None ("none"),
\* or returns a folder whose name cannot be read, so that _get_folder_path
\* raises ("path_raises"); "absent" marks an index the parent does not have.
\* items holds, per message the folder's methods reach, what fetching and
\* converting it does: "ok", "get_raises" (the getter raises) or
\* "convert_raises" (_convert_to_email_message catches and returns None).
\* children is number_of_sub_folders.
TreeFolder(access, items, children) ==
  [access |-> access, items |-> items, children |-> children]

\* pypff.file: the call of the library that raises, if any ("open" for
\* pff_file.open, "root" for get_root_folder and the read of root_folder.name,
\* "close" for pff_file.close, "none"), and its folders, keyed by the indices
\* that lead to them from the root
PffFile(fault, folders) == [fault |-> fault, folders |-> folders]

\* A yielded record: its kind ("structured", "scanned", "placeholder"), the
\* folder it came from and its index there (for a scanned record, the value
\* of message_count it was made with)
Record(kind, folder, index) == [kind |-> kind, folder |-> folder, index |-> index]

\* A suspended call of _extract_all_messages: its folder, whether it is in
\* its message loop or its subfolder loop, and the loop index
Frame(folder, phase, i) == [folder |-> folder, phase |-> phase, i |-> i]

\* The subfolder get_sub_folder(i) of a folder, where the folder has n
\* subfolders: here the library's indices are walked from the last down
SubFolderAtReversed(folder, i, n) == Append(folder, n - i)

\* The subfolder get_sub_folder(i) of a folder, where the folder has n
\* subfolders
SubFolderAt(folder, i, n) == Append(folder, i + 1)

\* The index the message loop goes to after index i: here a message that
\* fails ends the loop
NextMessageIndexAbort(items, i) == IF items[i + 1] = "ok" THEN i + 1 ELSE Len(items)

\* The index the message loop goes to after index i: "continue" after a
\* failure, the next iteration after a yield
NextMessageIndex(items, i) == i + 1

\* The loop condition of _parse_pst_basic, here letting one more message in
ScanContinuesOneMore(message_count) == message_count <= ScanCap

\* The loop condition of _parse_pst_basic: "while message_count < 10"
ScanContinues(message_count) == message_count < ScanCap

\* extract_messages is entered: "if not self.file_handle: raise", then
\* "import pypff"
ExtractStart ==
  /\ ex_pc = "start"
  /\ ex_pc' = IF ps_file_handle = <<>> THEN "raised"
              ELSE IF ex_lib = "missing" THEN "fallback"
              ELSE "lib_open"
  /\ UNCHANGED <<ex_lib, ex_pff, ex_stack, ex_out, ex_run, ex_first>>
  /\ UNCHANGED <<sc_message_count, sc_messages, sc_reads>>
  /\ UNCHANGED psVars
  /\ UNCHANGED notEx

\* A call into the library returns: pff_file.open(), then get_root_folder(),
\* after which _extract_all_messages(root_folder) starts
LibraryStep ==
  /\ \/ ex_pc = "lib_open" /\ ex_pff.fault # "open"
     \/ ex_pc = "lib_root" /\ ex_pff.fault # "root"
  /\ ex_pc' = IF ex_pc = "lib_open" THEN "lib_root" ELSE "traverse"
  /\ ex_stack' = IF ex_pc = "lib_open" THEN ex_stack ELSE << Frame(<<>>, "messages", 0) >>
  /\ UNCHANGED <<ex_lib, ex_pff, ex_out, ex_run, ex_first>>
  /\ UNCHANGED <<sc_message_count, sc_messages, sc_reads>>
  /\ UNCHANGED psVars
  /\ UNCHANGED notEx

\* One iteration of the message loop of the folder on top: the message is
\* fetched and converted, and yielded when both succeed
StructuredYield ==
  /\ ex_pc = "traverse"
  /\ LET top == ex_stack[Len(ex_stack)]
         items == ex_pff.folders[top.folder].items
     IN /\ top.phase = "messages"
        /\ top.i < Len(items)
        /\ ex_out' = IF items[top.i + 1] = "ok"
                     THEN Append(ex_out, Record("structured", top.folder, top.i + 1))
                     ELSE ex_out
        /\ ex_stack' = [ex_stack EXCEPT ![Len(ex_stack)].i = NextMessageIndex(items, top.i)]
  /\ UNCHANGED <<ex_pc, ex_lib, ex_pff, ex_run, ex_first>>
  /\ UNCHANGED <<sc_message_count, sc_messages, sc_reads>>
  /\ UNCHANGED psVars
  /\ UNCHANGED notEx

\* The message loop of the folder on top is over: number_of_sub_folders is
\* read and the subfolder loop begins
FolderMessagesDone ==
  /\ ex_pc = "traverse"
  /\ LET top == ex_stack[Len(ex_stack)]
     IN /\ top.phase = "messages"
        /\ top.i >= Len(ex_pff.folders[top.folder].items)
        /\ ex_stack' = [ex_stack EXCEPT ![Len(ex_stack)] = Frame(top.folder, "subfolders", 0)]
  /\ UNCHANGED <<ex_pc, ex_lib, ex_pff, ex_out, ex_run, ex_first>>
  /\ UNCHANGED <<sc_message_count, sc_messages, sc_reads>>
  /\ UNCHANGED psVars
  /\ UNCHANGED notEx

\* One iteration of the subfolder loop of the folder on top:
\* get_sub_folder(i), then the recursive call; a subfolder that raises, is
\* None, or whose path cannot be built is passed over ("continue")
SubFolder ==
  /\ ex_pc = "traverse"
  /\ LET top == ex_stack[Len(ex_stack)]
         n == ex_pff.folders[top.folder].children
         sub == SubFolderAt(top.folder, top.i, n)
         parent == [ex_stack EXCEPT ![Len(ex_stack)].i = top.i + 1]
     IN /\ top.phase = "subfolders"
        /\ top.i < n
        /\ ex_stack' = IF ex_pff.folders[sub].access = "ok"
                       THEN Append(parent, Frame(sub, "messages", 0))
                       ELSE parent
  /\ UNCHANGED <<ex_pc, ex_lib, ex_pff, ex_out, ex_run, ex_first>>
  /\ UNCHANGED <<sc_message_count, sc_messages, sc_reads>>
  /\ UNCHANGED psVars
  /\ UNCHANGED notEx

\* The subfolder loop of the folder on top is over: the call returns to its
\* caller, and from the root to extract_messages
FolderDone ==
  /\ ex_pc = "traverse"
  /\ LET top == ex_stack[Len(ex_stack)]
     IN /\ top.phase = "subfolders"
        /\ top.i >= ex_pff.folders[top.folder].children
  /\ ex_stack' = SubSeq(ex_stack, 1, Len(ex_stack) - 1)
  /\ ex_pc' = IF Len(ex_stack) = 1 THEN "lib_close" ELSE "traverse"
  /\ UNCHANGED <<ex_lib, ex_pff, ex_out, ex_run, ex_first>>
  /\ UNCHANGED <<sc_message_count, sc_messages, sc_reads>>
  /\ UNCHANGED psVars
  /\ UNCHANGED notEx

\* The traversal is over and pff_file.close() returns: the generator ends
LibraryClose ==
  /\ ex_pc = "lib_close"
  /\ ex_pff.fault # "close"
  /\ ex_pc' = "done"
  /\ UNCHANGED <<ex_lib, ex_pff, ex_stack, ex_out, ex_run, ex_first>>
  /\ UNCHANGED <<sc_message_count, sc_messages, sc_reads>>
  /\ UNCHANGED psVars
  /\ UNCHANGED notEx

\* A call into the library raises (open, root lookup, or the final close):
\* "except Exception" falls back to _extract_messages_basic
LibraryRaises ==
  /\ \/ ex_pc = "lib_open" /\ ex_pff.fault = "open"
     \/ ex_pc = "lib_root" /\ ex_pff.fault = "root"
     \/ ex_pc = "lib_close" /\ ex_pff.fault = "close"
  /\ ex_pc' = "fallback"
  /\ UNCHANGED <<ex_lib, ex_pff, ex_stack, ex_out, ex_run, ex_first>>
  /\ UNCHANGED <<sc_message_count, sc_messages, sc_reads>>
  /\ UNCHANGED psVars
  /\ UNCHANGED notEx

\* The position _parse_pst_basic starts reading at: here the handle is left
\* where the last read put it
ScanStartPosKept(handle) == handle[1]

\* The position _parse_pst_basic starts reading at: seek(512)
ScanStartPos(handle) == HeaderSize

\* _extract_messages_basic calls _parse_pst_basic: seek(512), message_count = 0
ScanStart ==
  /\ ex_pc = "fallback"
  /\ ex_pc' = "scan"
  /\ ps_file_handle' = << ScanStartPos(ps_file_handle) >>
  /\ sc_message_count' = 0
  /\ sc_messages' = <<>>
  /\ sc_reads' = 0
  /\ UNCHANGED <<ex_lib, ex_pff, ex_stack, ex_out, ex_run, ex_first>>
  /\ UNCHANGED <<ps_file, ps_pc, ps_is_unicode, ps_header, ps_with, ps_last>>
  /\ UNCHANGED notEx

\* One iteration of "while message_count < 10": a chunk is read; an empty
\* chunk ends the loop; a chunk with an indicator counts as a message, and is
\* recorded when a subject can be read from it; the handle is moved back
ScanWindow ==
  /\ ex_pc = "scan"
  /\ ScanContinues(sc_message_count)
  /\ sc_reads' = (sc_reads + 1) % 2
  /\ LET pos == ps_file_handle[1]
         hit == contains_email_pattern(ps_file, pos)
     IN IF ChunkLen(ps_file, pos) = 0
        THEN /\ ex_pc' = "emit"
             /\ UNCHANGED <<ps_file_handle, sc_message_count, sc_messages>>
        ELSE /\ ex_pc' = "scan"
             /\ sc_message_count' = IF hit THEN sc_message_count + 1 ELSE sc_message_count
             /\ sc_messages' =
                  IF hit /\ extract_subject(ps_file, pos) # <<>>
                  THEN Append(sc_messages, sc_message_count + 1)
                  ELSE sc_messages
             /\ ps_file_handle' = << NextReadPos(ps_file, pos) >>
  /\ UNCHANGED <<ex_lib, ex_pff, ex_stack, ex_out, ex_run, ex_first>>
  /\ UNCHANGED <<ps_file, ps_pc, ps_is_unicode, ps_header, ps_with, ps_last>>
  /\ UNCHANGED notEx

\* The loop condition fails: message_count has reached the cap
ScanCapReached ==
  /\ ex_pc = "scan"
  /\ ~ ScanContinues(sc_message_count)
  /\ ex_pc' = "emit"
  /\ UNCHANGED <<ex_lib, ex_pff, ex_stack, ex_out, ex_run, ex_first>>
  /\ UNCHANGED <<sc_message_count, sc_messages, sc_reads>>
  /\ UNCHANGED psVars
  /\ UNCHANGED notEx

\* _extract_messages_basic yields the records of the scan, or the one sample
\* record when the scan found none
FallbackYield ==
  /\ ex_pc = "emit"
  /\ IF sc_messages = <<>>
     THEN /\ ex_out' = Append(ex_out, Record("placeholder", <<>>, 0))
          /\ ex_pc' = "done"
          /\ UNCHANGED sc_messages
     ELSE /\ ex_out' = Append(ex_out, Record("scanned", <<>>, Head(sc_messages)))
          /\ sc_messages' = Tail(sc_messages)
          /\ ex_pc' = IF Len(sc_messages) = 1 THEN "done" ELSE "emit"
  /\ UNCHANGED <<ex_lib, ex_pff, ex_stack, ex_run, ex_first, sc_message_count, sc_reads>>
  /\ UNCHANGED psVars
  /\ UNCHANGED notEx

\* extract_messages is iterated a second time over the same archive, after
\* the first iteration has ended: the parser keeps its fields, the handle its
\* position, and the library gives the same results
ExtractAgain ==
  /\ ex_pc = "done"
  /\ ex_run = 1
  /\ ex_run' = 2
  /\ ex_first' = ex_out
  /\ ex_out' = <<>>
  /\ ex_pc' = "start"
  /\ UNCHANGED <<ex_lib, ex_pff, ex_stack, sc_message_count, sc_messages, sc_reads>>
  /\ UNCHANGED psVars
  /\ UNCHANGED notEx

\* The folders of the experiment: the root, two subfolders, and two
\* subfolders of the first
TreePaths == { <<>>, <<1>>, <<2>>, <<1, 1>>, <<1, 2>> }

ParentOf(path) == SubSeq(path, 1, Len(path) - 1)

\* The message lists of a folder: none, one that converts, and two that
\* convert after one whose getter raises and around one that does not convert
ItemLists == { <<>>, <<"ok">>, <<"get_raises", "ok", "convert_raises", "ok">> }

\* What the folder at a path can be
FolderKinds(path) ==
  { TreeFolder("ok", items, n) :
      items \in IF Len(path) = 2 THEN { <<"ok">> } ELSE ItemLists,
      n \in 0..Cardinality({ q \in TreePaths : Len(q) = Len(path) + 1 /\ ParentOf(q) = path }) }
    \cup IF path = <<>> THEN {}
         ELSE { TreeFolder(access, <<>>, 0) : access \in {"raises", "none", "path_raises", "absent"} }

\* The trees: a folder is absent exactly when its parent cannot be entered or
\* has fewer subfolders than its index
Trees ==
  { t \in [TreePaths -> UNION { FolderKinds(path) : path \in TreePaths }] :
      \A path \in TreePaths :
        /\ t[path] \in FolderKinds(path)
        /\ path # <<>> =>
             ( t[path].access = "absent" <=>
                 ~ ( /\ t[ParentOf(path)].access = "ok"
                     /\ path[Len(path)] <= t[ParentOf(path)].children ) ) }

\* A root folder without messages or subfolders
BareTree ==
  [path \in TreePaths |->
     IF path = <<>> THEN TreeFolder("ok", <<>>, 0) ELSE TreeFolder("absent", <<>>, 0)]

ScanLengths == {HeaderSize, 600, 9000, 20000}

\* A b'@' in the header, one in the last 100 bytes of a 600-byte file, a
\* subject line in the first chunk, one that straddles the end of the first
\* chunk, and a b'@' in the last 100 bytes of a 20000-byte file.
ScanMarks ==
  { Mark(505, "at"), Mark(590, "at"), Mark(520, "subject"),
    Mark(8700, "subject"), Mark(19990, "at") }

\* The archives of the experiment: valid Unicode archives
ScanFiles ==
  { [ArchiveFile(TRUE, len, UNICODE_PST, 0) EXCEPT !.marks = marks] :
      len \in ScanLengths,
      marks \in SUBSET ScanMarks }

\* The archives whose marks lie inside the file
WholeFiles ==
  { f \in ScanFiles : \A mark \in f.marks : mark.at + MarkBytes(mark) <= f.length }

\* The archives read when the library is there: one that ends with its
\* header, and a 600-byte one with a subject line
FewFiles ==
  { f \in WholeFiles :
      \/ f.length = HeaderSize
      \/ f.length = 600 /\ f.marks = { Mark(520, "subject") } }

\* The parser has been constructed and opened on a valid archive, and
\* extract_messages is about to be iterated.
InitExtract ==
  /\ ex_lib \in {"missing", "present"}
  /\ ps_file \in IF ex_lib = "missing" THEN WholeFiles ELSE FewFiles
  /\ ex_pff \in IF ex_lib = "missing" THEN { PffFile("none", BareTree) }
                ELSE { PffFile(fault, BareTree) : fault \in {"open", "root"} }
                       \cup { PffFile(fault, t) : fault \in {"none", "close"}, t \in Trees }
  /\ ps_pc = "constructed"
  /\ ps_file_handle = << AfterHeaderRead(ps_file) >>
  /\ ps_is_unicode = TRUE
  /\ ps_header = << [file_type |-> UNICODE_PST, is_unicode |-> TRUE,
                     file_size |-> ps_file.length] >>
  /\ ps_with = FALSE
  /\ ps_last = LastCall("open", FALSE)
  /\ ex_pc = "start"
  /\ ex_stack = <<>>
  /\ ex_out = <<>>
  /\ ex_run = 1
  /\ ex_first = <<>>
  /\ sc_message_count = 0
  /\ sc_messages = <<>>
  /\ sc_reads = 0
  /\ DedupIdle /\ FilterIdle /\ FolderIdle /\ BatchIdle
  /\ NamesIdle /\ TrackerIdle

NextExtract ==
  \/ ExtractStart
  \/ LibraryStep
  \/ StructuredYield
  \/ FolderMessagesDone
  \/ SubFolder
  \/ FolderDone
  \/ LibraryClose
  \/ LibraryRaises
  \/ ScanStart
  \/ ScanWindow
  \/ ScanCapReached
  \/ FallbackYield
  \/ ExtractAgain

\* The caller iterates the generator to exhaustion: it keeps taking steps
\* while there is one to take.
SpecExtract == InitExtract /\ [][NextExtract]_vars /\ WF_vars(NextExtract)

\* C3: iterating extract_messages over an open archive to exhaustion always
\* terminates, whatever the file's length and content, the fallback scan
\* included.
C3_ExtractionTerminates == <>(ex_pc \in {"done", "raised"})

-----------------------------------------------------------------------------
(* PSTParser._extract_messages_from_folder (pst_parser.py)                 *)

\* A capability of a library folder: the attribute is absent, reading its
\* count raises, or it is present with one outcome per index.  The outcome of
\* an index is what fetching and converting it does: "ok" (a record comes
\* back), "skipped" (the getter or _convert_to_email_message returns None),
\* "raises" (the getter raises), and for sub-items "not_email"
\* (_is_email_item is false).
Capability(state, items) == [state |-> state, items |-> items]

\* A library folder: number_of_sub_messages, number_of_sub_items, and
\* number_of_messages / get_number_of_messages
PffFolder(sub_messages, sub_items, messages) ==
  [sub_messages |-> sub_messages, sub_items |-> sub_items, messages |-> messages]

\* range(num) of a method's loop: nothing when the attribute is absent or
\* reading it raises
LoopLen(capability) == IF capability.state = "present" THEN Len(capability.items) ELSE 0

\* The body of a method's loop at index fo_i: a record is yielded and
\* messages_found grows when the index converts; every other outcome goes on
\* to the next index
TryIndex(method, capability) ==
  /\ fo_pc = method
  /\ fo_i < LoopLen(capability)
  /\ LET outcome == capability.items[fo_i + 1]
     IN /\ fo_messages_found' = IF outcome = "ok" THEN fo_messages_found + 1 ELSE fo_messages_found
        /\ fo_yielded' = IF outcome = "ok" THEN Append(fo_yielded, method) ELSE fo_yielded
  /\ fo_i' = fo_i + 1
  /\ UNCHANGED <<fo_folder, fo_pc, fo_tried, fo_total>>
  /\ UNCHANGED notFo

\* A method's loop is over (or was never entered): the next method begins
LeaveMethod(method, capability, next) ==
  /\ fo_pc = method
  /\ fo_i >= LoopLen(capability)
  /\ fo_pc' = next
  /\ fo_i' = 0
  /\ fo_tried' = IF next = "done" THEN fo_tried ELSE fo_tried \cup {next}
  /\ UNCHANGED <<fo_folder, fo_messages_found, fo_yielded, fo_total>>
  /\ UNCHANGED notFo

\* Method 1: folder.get_sub_message(i)
SubMessage == TryIndex("sub_messages", fo_folder.sub_messages)

\* Method 1 is over; Method 2 is entered whatever Method 1 found
SubMessagesDone == LeaveMethod("sub_messages", fo_folder.sub_messages, "sub_items")

\* Method 2: folder.get_sub_item(i), kept when _is_email_item
SubItem == TryIndex("sub_items", fo_folder.sub_items)

\* Method 2 is over; Method 3 is entered only "if messages_found == 0"
SubItemsDone ==
  LeaveMethod("sub_items", fo_folder.sub_items,
              IF fo_messages_found = 0 THEN "messages" ELSE "done")

\* Method 3: folder.get_message(i)
LegacyMessage == TryIndex("messages", fo_folder.messages)

\* Method 3 is over
LegacyDone == LeaveMethod("messages", fo_folder.messages, "done")

\* How many indices of a capability give the outcome
CountOutcome(capability, outcome) ==
  Cardinality({ k \in 1..Len(capability.items) : capability.items[k] = outcome })

\* message_count of _build_folder_tree: the first of number_of_sub_messages,
\* number_of_messages and the e-mail sub-items that the folder has; reading
\* that raises leaves 0.  Of the sub-items every one that converts is an
\* e-mail item, and "doubtful" of those that give no record are e-mail
\* items too.
build_folder_tree(folder, doubtful) ==
  IF folder.sub_messages.state # "absent" THEN LoopLen(folder.sub_messages)
  ELSE IF folder.messages.state # "absent" THEN LoopLen(folder.messages)
  ELSE IF folder.sub_items.state = "present"
  THEN CountOutcome(folder.sub_items, "ok") + doubtful
  ELSE 0

\* get_folder_tree on an archive whose root is the folder and has no
\* subfolder, then get_statistics: total_messages is _count_messages of the
\* tree
GetStatistics ==
  /\ fo_pc = "done"
  /\ \E doubtful \in 0..CountOutcome(fo_folder.sub_items, "skipped") :
       fo_total' = << build_folder_tree(fo_folder, doubtful) >>
  /\ fo_pc' = "counted"
  /\ UNCHANGED <<fo_folder, fo_i, fo_messages_found, fo_yielded, fo_tried>>
  /\ UNCHANGED notFo

\* Most indices of one capability
MaxItems == 2

\* Sequences over a set of at most n elements
SeqsUpTo(S, n) == UNION { [1..k -> S] : k \in 0..n }

Capabilities(outcomes, n) ==
  { Capability("absent", <<>>), Capability("raises", <<>>) }
    \cup { Capability("present", items) : items \in SeqsUpTo(outcomes, n) }

MessageOutcomes == {"ok", "skipped", "raises"}

ItemOutcomes == MessageOutcomes \cup {"not_email"}

InitFolder ==
  /\ fo_folder \in { PffFolder(a, b, c) :
                       a \in Capabilities(MessageOutcomes, MaxItems),
                       b \in Capabilities(ItemOutcomes, MaxItems),
                       c \in Capabilities(MessageOutcomes, 1) }
  /\ fo_pc = "sub_messages"
  /\ fo_i = 0
  /\ fo_messages_found = 0
  /\ fo_yielded = <<>>
  /\ fo_tried = {"sub_messages"}
  /\ fo_total = <<>>
  /\ DedupIdle /\ FilterIdle /\ ParserIdle /\ ExtractIdle /\ BatchIdle
  /\ NamesIdle /\ TrackerIdle

NextFolder ==
  \/ SubMessage
  \/ SubMessagesDone
  \/ SubItem
  \/ SubItemsDone
  \/ LegacyMessage
  \/ LegacyDone
  \/ GetStatistics

SpecFolder == InitFolder /\ [][NextFolder]_vars

\* C10: the methods are tried in the order sub-message, sub-item, legacy
\* message; once a method has yielded a record for the folder no later method
\* contributes a record, and a folder whose methods so far yielded nothing has
\* gone on to the next method.
C10_FirstYieldingStrategyWins ==
  /\ \A i, j \in 1..Len(fo_yielded) : fo_yielded[i] = fo_yielded[j]
  /\ fo_pc = "done" /\ fo_yielded = <<>> =>
       fo_tried = {"sub_messages", "sub_items", "messages"}

\* Every accessor of the folder succeeds and every item converts
AllConvert ==
  \A c \in {fo_folder.sub_messages, fo_folder.sub_items, fo_folder.messages} :
    /\ c.state # "raises"
    /\ \A k \in 1..Len(c.items) : c.items[k] = "ok"

\* C28: on an archive where every accessor succeeds and every item converts,
\* total_messages of get_statistics is the number of records the extraction
\* yielded, whichever capabilities the folder has.
C28_CountMatchesExtraction ==
  fo_pc = "counted" /\ AllConvert => fo_total = << Len(fo_yielded) >>

-----------------------------------------------------------------------------
(* BatchProcessor.process_files and _process_single_file                   *)
(* (batch_processor.py)                                                     *)

\* What processing one file does: "with PSTParser(pst_file) as parser" raises
\* in the constructor ("construct") or in open ("open"), or
\* list(parser.extract_messages()) raises ("extract"), or nothing raises
\* ("none") and the list has "records" records.
PstFile(fails, records) == [fails |-> fails, records |-> records]

\* The list _process_single_file returns for the f-th file: None when
\* anything raised, else the file's records
FileResult(files, f) ==
  IF files[f].fails = "none"
  THEN << [r \in 1..files[f].records |-> <<f, r>>] >>
  ELSE <<>>

\* The counter _process_single_file increments for the f-th file
CounterOf(files, f) ==
  IF files[f].fails = "none" THEN "files_processed" ELSE "files_failed"

\* A list put in front of all_messages instead of at its end
ExtendFront(all_messages, result) ==
  IF result = <<>> THEN all_messages ELSE result[1] \o all_messages

\* Only the last list kept
ExtendReplace(all_messages, result) ==
  IF result = <<>> THEN all_messages ELSE result[1]

\* all_messages after "if messages is not None: all_messages.extend(messages)"
Extend(all_messages, result) ==
  IF result = <<>> THEN all_messages ELSE all_messages \o result[1]

\* threading.Lock that never excludes anyone
CanAcquireAlways(lock) == TRUE

\* threading.Lock: "with self._lock" goes on only when no thread holds it
CanAcquire(lock) == lock = <<>>

\* A submitted call of _process_single_file
Task(pc, read, result) == [pc |-> pc, read |-> read, result |-> result]

\* The tasks a worker thread is running
Active == { t \in DOMAIN bp_task : bp_task[t].pc \in {"extracted", "locked"} }

\* Percentages are Python floats made by "/" and "*" on small integers; they
\* are kept here as exact fractions in lowest terms.
RECURSIVE Gcd(_, _)
Gcd(a, b) == IF b = 0 THEN a ELSE Gcd(b, a % b)

Rat(n, d) == [num |-> n \div Gcd(n, d), den |-> d \div Gcd(n, d)]

RatOf(k) == [num |-> k, den |-> 1]

RatPlus(a, b) == Rat(a.num * b.den + b.num * a.den, a.den * b.den)

RatTimes(a, b) == Rat(a.num * b.num, a.den * b.den)

RatDiv(a, b) == Rat(a.num * b.den, a.den * b.num)

RatLeq(a, b) == a.num * b.den <= b.num * a.den

\* "progress = (current_step / total_steps) * 100"
StepPercent(current_step, total_steps) ==
  RatTimes(RatDiv(RatOf(current_step), RatOf(total_steps)), RatOf(100))

\* conversion_progress: the percentage it hands to progress_callback for the
\* percentage prog that batch_convert reports
conversion_progress(prog, current_step, total_steps) ==
  LET base_progress == RatTimes(RatDiv(RatOf(current_step), RatOf(total_steps)), RatOf(100))
      step_progress == RatTimes(RatDiv(prog, RatOf(100)), RatDiv(RatOf(100), RatOf(total_steps)))
  IN  RatPlus(base_progress, step_progress)

\* format_progress that forgets the formats already done
format_progress_flat(i, progress, total_operations) ==
  RatDiv(progress, RatOf(total_operations))

\* format_progress of batch_convert, for the i-th format counted from 0
format_progress(i, progress, total_operations) ==
  RatDiv(RatPlus(RatOf(i * 100), progress), RatOf(total_operations))

\* BaseConverter.convert_messages: "progress = (i + 1) / total_messages * 100"
MessagePercent(i, total_messages) ==
  RatTimes(RatDiv(RatOf(i + 1), RatOf(total_messages)), RatOf(100))

\* Converter.SUPPORTED_FORMATS
SUPPORTED_FORMATS == {"eml", "mbox", "pdf"}

\* The formats whose converter runs BaseConverter.convert_messages; 'mbox'
\* gets single_file=True from Converter.convert_messages and writes one file
\* without reporting progress
PerMessage(format_name) == format_name \in SUPPORTED_FORMATS \ {"mbox"}

\* Where batch_convert is: i formats done, and in the format at hand j
\* messages gone through, of which "converted" were converted
Conv(i, j, converted) == [i |-> i, j |-> j, converted |-> converted]

\* The dictionary a conversion returns
ConversionResult(total, converted, errors) ==
  [total_messages |-> total, converted_count |-> converted, error_count |-> errors]

\* results holding the last entry only
PutOnly(results, format_name, result) == [f \in {format_name} |-> result]

\* "results[format_name] = result"
Put(results, format_name, result) ==
  [f \in DOMAIN results \cup {format_name} |->
     IF f = format_name THEN result ELSE results[f]]

\* The r-th record of the f-th archive: the archives hold copies of one mail,
\* the first archive's filed under /Junk and the others' under /Inbox
MessageOf(rec) ==
  EmailMessage(<<"m">>, <<"a","@","x">>, << <<"u">> >>, <<>>,
               None, None, IF rec[1] = 1 THEN Str_Junk ELSE Str_Inbox, <<>>)

\* MessageFilter.filter_messages
filter_messages(f, messages) == SelectSeq(messages, LAMBDA m : matches(f, m))

\* The detector handed to configure_duplicate_detection and its
\* remove_duplicates flag
Dedup(detector, remove) == [detector |-> detector, remove |-> remove]

\* _apply_processing with the two steps in the other order
apply_processing_dedup_first(f, dedup, messages) ==
  LET kept == IF dedup.remove
              THEN remove_duplicates(dedup.detector, messages, "first")
              ELSE messages
      filtered == filter_messages(f, kept)
  IN  [processed |-> filtered,
       filtered_messages |-> Len(filtered),
       duplicates_removed |-> IF dedup.remove THEN Len(messages) - Len(kept) ELSE 0]

\* BatchProcessor._apply_processing: the list it returns and what it stores
\* in filtered_messages and in duplicates_removed (which stays 0, as
\* _reset_stats left it, when duplicates are not removed)
apply_processing(f, dedup, messages) ==
  LET filtered == filter_messages(f, messages)
      processed == IF dedup.remove
                   THEN remove_duplicates(dedup.detector, filtered, "first")
                   ELSE filtered
  IN  [processed |-> processed,
       filtered_messages |-> Len(filtered),
       duplicates_removed |-> IF dedup.remove THEN Len(filtered) - Len(processed) ELSE 0]

\* What goes wrong in conversion: nothing ("none"), convert_message returns
\* False ("false") or raises ("raises") for the message at place "at", or the
\* single MBOX file cannot be written ("mbox")
Fault(kind, at) == [kind |-> kind, at |-> at]

\* convert_message succeeds for the message at place k
Converts(fault, k) == ~(fault.kind \in {"false", "raises"} /\ fault.at = k)

\* The thread that called process_files
MainThread == 0

\* One assignment to self.stats or one extend of all_messages, by a thread,
\* with the lock as it is at that moment
Write(what, thread, lock) == [what |-> what, thread |-> thread, locked |-> lock = <<thread>>]

\* self.stats after _reset_stats
ResetStats ==
  [files_processed |-> 0, files_failed |-> 0, total_messages |-> 0,
   filtered_messages |-> 0, duplicates_removed |-> 0]

\* "if progress_callback:"
Called == bp_callback.kind # "none"

\* The call about to be made raises into its caller: the callback was handed
\* in directly and this is the call on which it raises.  A callback
\* subscribed to a ProgressTracker raises inside update_progress, which
\* catches and logs it.
Raises == bp_callback.kind = "direct" /\ bp_calls + 1 = bp_callback.raise_at

\* One "progress_callback(progress, ...)" under "if progress_callback"
Notify(progress) ==
  /\ bp_calls' = IF Called THEN bp_calls + 1 ELSE bp_calls
  /\ bp_reports' = IF Called THEN Append(bp_reports, progress) ELSE bp_reports

\* process_files begins: _reset_stats, current_step = 0, then the sequential
\* loop or the submission of one task per file to the pool
Start ==
  /\ bp_pc = "start"
  /\ CanAcquire(bp_lock)
  /\ bp_stats' = ResetStats
  /\ bp_writes' = bp_writes \cup {Write("stats", MainThread, <<MainThread>>)}
  /\ bp_current_step' = 0
  /\ IF bp_max_workers = 1
     THEN /\ bp_pc' = "sequential"
          /\ UNCHANGED bp_task
     ELSE /\ bp_pc' = "collect"
          /\ bp_task' = [t \in 1..Len(bp_files) |-> Task("queued", 0, <<>>)]
  /\ UNCHANGED <<bpGiven, bp_next, bp_lock, bp_all_messages, bp_calls, bp_reports, bpConvert>>
  /\ UNCHANGED notBp

\* One iteration of the sequential loop: the progress report, then
\* _process_single_file(pst_file) on the main thread, then the extend.  A
\* report that raises ends process_files.
SequentialFile ==
  /\ bp_pc = "sequential"
  /\ bp_next <= Len(bp_files)
  /\ CanAcquire(bp_lock)
  /\ bp_current_step' = bp_current_step + 1
  /\ Notify(StepPercent(bp_current_step + 1, Len(bp_files) + 1))
  /\ IF Raises
     THEN /\ bp_pc' = "raised"
          /\ UNCHANGED <<bp_stats, bp_all_messages, bp_next, bp_writes>>
     ELSE /\ bp_stats' =
               [bp_stats EXCEPT ![CounterOf(bp_files, bp_next)] = bp_stats[CounterOf(bp_files, bp_next)] + 1]
          /\ bp_all_messages' = Extend(bp_all_messages, FileResult(bp_files, bp_next))
          /\ bp_writes' = bp_writes \cup
               ( {Write("stats", MainThread, <<MainThread>>)} \cup
                 IF FileResult(bp_files, bp_next) = <<>> THEN {}
                 ELSE {Write("extend", MainThread, bp_lock)} )
          /\ bp_next' = bp_next + 1
          /\ UNCHANGED bp_pc
  /\ UNCHANGED <<bpGiven, bp_lock, bp_task, bpConvert>>
  /\ UNCHANGED notBp

\* A worker thread takes a queued task and runs it up to its "with self._lock";
\* when a report has raised, leaving "with ThreadPoolExecutor" waits for the
\* tasks already submitted
TaskExtract(t) ==
  /\ bp_pc \in {"collect", "raised"}
  /\ bp_task[t].pc = "queued"
  /\ Cardinality(Active) < bp_max_workers
  /\ bp_task' = [bp_task EXCEPT ![t].pc = "extracted"]
  /\ UNCHANGED <<bpGiven, bp_pc, bp_next, bp_stats, bp_lock, bp_all_messages, bpProgress, bpConvert, bp_writes>>
  /\ UNCHANGED notBp

\* The task enters "with self._lock" and reads the counter of "+= 1"
TaskAcquire(t) ==
  /\ bp_task[t].pc = "extracted"
  /\ CanAcquire(bp_lock)
  /\ bp_lock' = <<t>>
  /\ bp_task' = [bp_task EXCEPT ![t].pc = "locked",
                                ![t].read = bp_stats[CounterOf(bp_files, t)]]
  /\ UNCHANGED <<bpGiven, bp_pc, bp_next, bp_stats, bp_all_messages, bpProgress, bpConvert, bp_writes>>
  /\ UNCHANGED notBp

\* The task stores the counter, leaves the lock and returns its list or None
TaskRelease(t) ==
  /\ bp_task[t].pc = "locked"
  /\ bp_stats' = [bp_stats EXCEPT ![CounterOf(bp_files, t)] = bp_task[t].read + 1]
  /\ bp_writes' = bp_writes \cup {Write("stats", t, bp_lock)}
  /\ bp_lock' = <<>>
  /\ bp_task' = [bp_task EXCEPT ![t].pc = "finished",
                                ![t].result = FileResult(bp_files, t)]
  /\ UNCHANGED <<bpGiven, bp_pc, bp_next, bp_all_messages, bpProgress, bpConvert>>
  /\ UNCHANGED notBp

\* One iteration of "for future in as_completed(...)": a finished future not
\* yet seen; the progress report, then future.result(), which does not raise,
\* since _process_single_file catches every Exception.  A report that raises
\* ends process_files.
Collect(t) ==
  /\ bp_pc = "collect"
  /\ bp_task[t].pc = "finished"
  /\ bp_current_step' = bp_current_step + 1
  /\ Notify(StepPercent(bp_current_step + 1, Len(bp_files) + 1))
  /\ IF Raises
     THEN /\ bp_pc' = "raised"
          /\ UNCHANGED <<bp_task, bp_all_messages, bp_writes>>
     ELSE /\ bp_task' = [bp_task EXCEPT ![t].pc = "collected"]
          /\ bp_all_messages' = Extend(bp_all_messages, bp_task[t].result)
          /\ bp_writes' = IF bp_task[t].result = <<>> THEN bp_writes
                          ELSE bp_writes \cup {Write("extend", MainThread, bp_lock)}
          /\ UNCHANGED bp_pc
  /\ UNCHANGED <<bpGiven, bp_next, bp_stats, bp_lock, bpConvert>>
  /\ UNCHANGED notBp

\* The extraction loop is over: "with self._lock: total_messages = len(all_messages)"
SetTotal ==
  /\ \/ bp_pc = "sequential" /\ bp_next > Len(bp_files)
     \/ bp_pc = "collect" /\ \A t \in DOMAIN bp_task : bp_task[t].pc = "collected"
  /\ CanAcquire(bp_lock)
  /\ bp_stats' = [bp_stats EXCEPT !.total_messages = Len(bp_all_messages)]
  /\ bp_writes' = bp_writes \cup {Write("stats", MainThread, <<MainThread>>)}
  /\ bp_pc' = "convert"
  /\ UNCHANGED <<bpGiven, bp_next, bp_lock, bp_task, bp_all_messages, bpProgress, bpConvert>>
  /\ UNCHANGED notBp

\* _apply_processing: the filter, then the duplicate removal when it is
\* configured, each storing its count under the lock; then the report that
\* conversion starts, and batch_convert is entered.  A report that raises
\* ends process_files.
StartConversion ==
  /\ bp_pc = "convert"
  /\ CanAcquire(bp_lock)
  /\ LET applied == apply_processing(bp_filter, bp_dedup,
                       [k \in 1..Len(bp_all_messages) |-> MessageOf(bp_all_messages[k])])
     IN /\ bp_processed' = applied.processed
        /\ bp_stats' = [bp_stats EXCEPT !.filtered_messages = applied.filtered_messages,
                                        !.duplicates_removed = applied.duplicates_removed]
  /\ bp_writes' = bp_writes \cup {Write("stats", MainThread, <<MainThread>>)}
  /\ bp_current_step' = bp_current_step + 1
  /\ Notify(StepPercent(bp_current_step + 1, Len(bp_files) + 1))
  /\ bp_pc' = IF Raises THEN "raised" ELSE "converting"
  /\ bp_conv' = Conv(0, 0, 0)
  /\ bp_results' = <<>>
  /\ UNCHANGED <<bpGiven, bp_next, bp_lock, bp_task, bp_all_messages>>
  /\ UNCHANGED notBp

\* batch_convert meets a format that Converter.convert_messages refuses with
\* ValueError: the format's entry is the failed one
FormatUnsupported ==
  /\ bp_pc = "converting"
  /\ bp_conv.i < Len(bp_formats)
  /\ bp_formats[bp_conv.i + 1] \notin SUPPORTED_FORMATS
  /\ bp_results' = Put(bp_results, bp_formats[bp_conv.i + 1],
                       ConversionResult(Len(bp_processed), 0, Len(bp_processed)))
  /\ bp_conv' = Conv(bp_conv.i + 1, 0, 0)
  /\ UNCHANGED <<bpGiven, bp_pc, bp_next, bp_stats, bp_lock, bp_task, bp_all_messages, bpProgress,
                 bp_processed, bp_writes>>
  /\ UNCHANGED notBp

\* batch_convert converts to a format in one step without a report: 'mbox'
\* into a single file, which counts every message as converted, or none when
\* the file cannot be written; or a per-message format when there is no
\* message
FormatWhole ==
  /\ bp_pc = "converting"
  /\ bp_conv.i < Len(bp_formats)
  /\ \/ bp_formats[bp_conv.i + 1] = "mbox"
     \/ PerMessage(bp_formats[bp_conv.i + 1]) /\ bp_processed = <<>>
  /\ bp_results' = Put(bp_results, bp_formats[bp_conv.i + 1],
                       IF bp_formats[bp_conv.i + 1] = "mbox" /\ bp_fault.kind = "mbox"
                       THEN ConversionResult(Len(bp_processed), 0, Len(bp_processed))
                       ELSE ConversionResult(Len(bp_processed), Len(bp_processed), 0))
  /\ bp_conv' = Conv(bp_conv.i + 1, 0, 0)
  /\ UNCHANGED <<bpGiven, bp_pc, bp_next, bp_stats, bp_lock, bp_task, bp_all_messages, bpProgress,
                 bp_processed, bp_writes>>
  /\ UNCHANGED notBp

\* One iteration of BaseConverter.convert_messages inside batch_convert: the
\* message is converted and counted in converted_count, or in error_count
\* when convert_message returns False or raises; then progress is reported
\* through format_progress and conversion_progress.  A report that raises
\* leaves convert_messages and is caught by batch_convert, which records the
\* failed entry for the format and goes on to the next one.
ConvertMessage ==
  /\ bp_pc = "converting"
  /\ bp_conv.i < Len(bp_formats)
  /\ PerMessage(bp_formats[bp_conv.i + 1])
  /\ bp_conv.j < Len(bp_processed)
  /\ Notify(conversion_progress(
              format_progress(bp_conv.i, MessagePercent(bp_conv.j, Len(bp_processed)),
                              Len(bp_formats)),
              bp_current_step, Len(bp_files) + 1))
  /\ LET converted == IF Converts(bp_fault, bp_conv.j + 1)
                      THEN bp_conv.converted + 1 ELSE bp_conv.converted
     IN IF Raises
        THEN /\ bp_results' = Put(bp_results, bp_formats[bp_conv.i + 1],
                                  ConversionResult(Len(bp_processed), 0, Len(bp_processed)))
             /\ bp_conv' = Conv(bp_conv.i + 1, 0, 0)
        ELSE IF bp_conv.j + 1 = Len(bp_processed)
        THEN /\ bp_results' = Put(bp_results, bp_formats[bp_conv.i + 1],
                                  ConversionResult(Len(bp_processed), converted,
                                                   Len(bp_processed) - converted))
             /\ bp_conv' = Conv(bp_conv.i + 1, 0, 0)
        ELSE /\ bp_conv' = Conv(bp_conv.i, bp_conv.j + 1, converted)
             /\ UNCHANGED bp_results
  /\ UNCHANGED <<bpGiven, bp_pc, bp_next, bp_stats, bp_lock, bp_task, bp_all_messages, bp_current_step,
                 bp_processed, bp_writes>>
  /\ UNCHANGED notBp

\* batch_convert has done every format: conversion_results is stored under
\* the lock and _get_final_stats returned
Return ==
  /\ bp_pc = "converting"
  /\ bp_conv.i = Len(bp_formats)
  /\ CanAcquire(bp_lock)
  /\ bp_writes' = bp_writes \cup {Write("stats", MainThread, <<MainThread>>)}
  /\ bp_pc' = "returned"
  /\ UNCHANGED <<bpGiven, bp_next, bp_stats, bp_lock, bp_task, bp_all_messages, bpProgress, bpConvert>>
  /\ UNCHANGED notBp

\* Most files of one batch
MaxFiles == 3

FileOutcomes ==
  { PstFile("construct", 0), PstFile("open", 0), PstFile("extract", 0),
    PstFile("none", 0), PstFile("none", 2) }

WorkerCounts == {1, 2, 3}

\* The processor may have run before: self.stats holds what that run left.
\* No callback and no output format is handed in.
InitBatch ==
  /\ bp_files \in SeqsUpTo(FileOutcomes, MaxFiles)
  /\ bp_max_workers \in WorkerCounts
  /\ bp_pc = "start"
  /\ bp_next = 1
  /\ bp_stats \in { ResetStats,
                    [files_processed |-> 1, files_failed |-> 1, total_messages |-> 2,
                     filtered_messages |-> 2, duplicates_removed |-> 0] }
  /\ bp_lock = <<>>
  /\ bp_task = <<>>
  /\ bp_all_messages = <<>>
  /\ bp_formats = <<>>
  /\ bp_callback = [kind |-> "none", raise_at |-> 0]
  /\ bp_current_step = 0 /\ bp_calls = 0 /\ bp_reports = <<>>
  /\ bp_conv = Conv(0, 0, 0) /\ bp_results = <<>>
  /\ bp_filter = FilterInit /\ bp_dedup = Dedup(DetectorInit, FALSE)
  /\ bp_fault = Fault("none", 0)
  /\ bp_processed = <<>> /\ bp_writes = {}
  /\ DedupIdle /\ FilterIdle /\ ParserIdle /\ ExtractIdle /\ FolderIdle
  /\ NamesIdle /\ TrackerIdle

NextBatch ==
  \/ Start
  \/ SequentialFile
  \/ \E t \in DOMAIN bp_task : TaskExtract(t)
  \/ \E t \in DOMAIN bp_task : TaskAcquire(t)
  \/ \E t \in DOMAIN bp_task : TaskRelease(t)
  \/ \E t \in DOMAIN bp_task : Collect(t)
  \/ SetTotal
  \/ StartConversion
  \/ Return

SpecBatch == InitBatch /\ [][NextBatch]_vars

\* Most files, and most output formats, of one batch whose progress is watched
MaxProgressFiles == 2

MaxFormats == 2

ProgressFiles == { PstFile("open", 0), PstFile("none", 1), PstFile("none", 2) }

\* 'pdf' runs the same BaseConverter.convert_messages as 'eml'; 'docx' is not
\* a supported format
FormatNames == {"eml", "mbox", "docx"}

\* No callback; a callback handed in directly that never raises, or raises
\* on its first or on its fourth call; a callback subscribed to a
\* ProgressTracker whose update_progress is handed in, raising on its first
\* call
Callbacks ==
  { [kind |-> "none", raise_at |-> 0],
    [kind |-> "direct", raise_at |-> 0],
    [kind |-> "direct", raise_at |-> 1],
    [kind |-> "direct", raise_at |-> 4],
    [kind |-> "tracker", raise_at |-> 1] }

InitProgress ==
  /\ bp_files \in SeqsUpTo(ProgressFiles, MaxProgressFiles)
  /\ bp_max_workers \in {1, 2}
  /\ bp_pc = "start"
  /\ bp_next = 1
  /\ bp_stats = ResetStats
  /\ bp_lock = <<>>
  /\ bp_task = <<>>
  /\ bp_all_messages = <<>>
  /\ bp_formats \in SeqsUpTo(FormatNames, MaxFormats)
  /\ bp_callback \in Callbacks
  /\ bp_current_step = 0 /\ bp_calls = 0 /\ bp_reports = <<>>
  /\ bp_conv = Conv(0, 0, 0) /\ bp_results = <<>>
  /\ bp_filter = FilterInit /\ bp_dedup = Dedup(DetectorInit, FALSE)
  /\ bp_fault = Fault("none", 0)
  /\ bp_processed = <<>> /\ bp_writes = {}
  /\ DedupIdle /\ FilterIdle /\ ParserIdle /\ ExtractIdle /\ FolderIdle
  /\ NamesIdle /\ TrackerIdle

NextProgress ==
  \/ NextBatch
  \/ FormatUnsupported
  \/ FormatWhole
  \/ ConvertMessage

SpecProgress == InitProgress /\ [][NextProgress]_vars

\* The filters handed to configure_filter: the processor's own, and one that
\* excludes the folder "junk"
BatchFilters ==
  { FilterInit, [FilterInit EXCEPT !.exclude_folders = << StoredPattern(<<"J","U","N","K">>) >>] }

\* Duplicate removal left off, or configured with the default detector
BatchDedups == { Dedup(DetectorInit, FALSE), Dedup(DetectorInit, TRUE) }

Faults == { Fault("none", 0), Fault("false", 1), Fault("raises", 2), Fault("mbox", 0) }

PipelineFormats == { <<>>, <<"eml">>, <<"docx", "eml">>, <<"mbox", "eml">> }

\* Batches whose records go through filter, duplicate removal and conversion
InitPipeline ==
  /\ bp_files \in SeqsUpTo(ProgressFiles, MaxProgressFiles)
  /\ bp_max_workers \in {1, 2}
  /\ bp_pc = "start"
  /\ bp_next = 1
  /\ bp_stats = ResetStats
  /\ bp_lock = <<>>
  /\ bp_task = <<>>
  /\ bp_all_messages = <<>>
  /\ bp_formats \in PipelineFormats
  /\ bp_callback = [kind |-> "none", raise_at |-> 0]
  /\ bp_current_step = 0 /\ bp_calls = 0 /\ bp_reports = <<>>
  /\ bp_conv = Conv(0, 0, 0) /\ bp_results = <<>>
  /\ bp_filter \in BatchFilters /\ bp_dedup \in BatchDedups
  /\ bp_fault \in Faults
  /\ bp_processed = <<>> /\ bp_writes = {}
  /\ DedupIdle /\ FilterIdle /\ ParserIdle /\ ExtractIdle /\ FolderIdle
  /\ NamesIdle /\ TrackerIdle

SpecPipeline == InitPipeline /\ [][NextProgress]_vars

\* The files of the batch that process without raising
Succeeding == { f \in DOMAIN bp_files : bp_files[f].fails = "none" }

\* The records of file f in the combined list, in the order they stand there
RecordsOf(f) == SelectSeq(bp_all_messages, LAMBDA m : m[1] = f)

\* C4: when process_files returns, with one worker and with several under
\* every interleaving of the tasks, every file that raised is counted in
\* files_failed and left no record, every other file is counted in
\* files_processed and left all its records, files_processed + files_failed
\* is the number of files, and total_messages is the number of records of the
\* files that succeeded.
C4_BatchCounts ==
  bp_pc = "returned" =>
    /\ bp_stats.files_failed = Len(bp_files) - Cardinality(Succeeding)
    /\ bp_stats.files_processed = Cardinality(Succeeding)
    /\ bp_stats.files_processed + bp_stats.files_failed = Len(bp_files)
    /\ \A f \in DOMAIN bp_files :
         RecordsOf(f) = IF f \in Succeeding
                        THEN [r \in 1..bp_files[f].records |-> <<f, r>>]
                        ELSE <<>>
    /\ bp_stats.total_messages = SumOver(Succeeding, [f \in Succeeding |-> bp_files[f].records])

\* A parallel batch of three files has returned: the first file raised, a
\* later one gave records, and the processor had counters left from a run
\* before.
C4_Witness ==
  /\ bp_pc = "returned"
  /\ bp_max_workers > 1
  /\ Len(bp_files) = 3
  /\ bp_files[1].fails = "open"
  /\ \E f \in 2..3 : f \in Succeeding /\ bp_files[f].records > 0
  /\ bp_stats.files_failed >= 1
  /\ bp_stats.total_messages >= 2

\* C18: in every run of process_files, sequential or parallel, the
\* percentages passed to the progress callback never decrease from one call
\* to a later one, through the extraction reports, the report that conversion
\* starts and the conversion reports of every format.
C18_MonotoneProgress ==
  \A a, b \in 1..Len(bp_reports) :
    a <= b => RatLeq(bp_reports[a], bp_reports[b])

\* A parallel batch of two files and two per-message formats has returned:
\* the callback got two extraction reports, the report that conversion
\* starts and the reports of both formats, the last above the first.
C18_Witness ==
  /\ bp_pc = "returned"
  /\ bp_max_workers = 2
  /\ Len(bp_files) = 2
  /\ bp_formats = <<"eml", "eml">>
  /\ bp_all_messages # <<>>
  /\ Len(bp_reports) = 3 + 2 * Len(bp_all_messages)
  /\ ~RatLeq(bp_reports[Len(bp_reports)], bp_reports[1])

\* C19: every percentage passed to the progress callback lies in [0, 100].
C19_PercentInRange ==
  \A a \in 1..Len(bp_reports) :
    /\ RatLeq(RatOf(0), bp_reports[a])
    /\ RatLeq(bp_reports[a], RatOf(100))

\* The entry batch_convert gives a format when no report raises
ExpectedResult(format_name) ==
  LET total == SumOver(Succeeding, [f \in Succeeding |-> bp_files[f].records])
  IN  IF format_name \in SUPPORTED_FORMATS
      THEN ConversionResult(total, total, 0)
      ELSE ConversionResult(total, 0, total)

\* C20: a progress callback that raises changes nothing: process_files never
\* ends with the callback's error, and when it returns every file has been
\* counted, all_messages holds the records of every file that succeeded, and
\* each format's entry is the one a callback that does not raise leaves.
C20_RaisingCallbackIgnored ==
  /\ bp_pc # "raised"
  /\ bp_pc = "returned" =>
       /\ bp_stats.files_processed + bp_stats.files_failed = Len(bp_files)
       /\ bp_stats.total_messages =
            SumOver(Succeeding, [f \in Succeeding |-> bp_files[f].records])
       /\ \A k \in DOMAIN bp_formats :
            bp_results[bp_formats[k]] = ExpectedResult(bp_formats[k])

\* C22: in all_messages the records of each file stand together, in the
\* file's extraction order, whatever order the tasks complete in; with one
\* worker the files' blocks stand in the order of the input list.
C22_FileBlocks ==
  /\ \A a, b, c \in 1..Len(bp_all_messages) :
       a < b /\ b < c /\ bp_all_messages[a][1] = bp_all_messages[c][1]
         => bp_all_messages[b][1] = bp_all_messages[a][1]
  /\ \A a, b \in 1..Len(bp_all_messages) :
       a < b /\ bp_all_messages[a][1] = bp_all_messages[b][1]
         => bp_all_messages[a][2] < bp_all_messages[b][2]
  /\ bp_max_workers = 1 =>
       \A a, b \in 1..Len(bp_all_messages) :
         a < b => bp_all_messages[a][1] <= bp_all_messages[b][1]

\* A parallel batch has returned with the two records of the third file
\* standing before the two of the first.
C22_Witness ==
  /\ bp_pc = "returned"
  /\ bp_max_workers > 1
  /\ Len(bp_all_messages) >= 4
  /\ bp_all_messages[1] = <<3, 1>>
  /\ bp_all_messages[2] = <<3, 2>>
  /\ \E a \in 3..Len(bp_all_messages) : bp_all_messages[a] = <<1, 1>>

AllExtracted == [k \in 1..Len(bp_all_messages) |-> MessageOf(bp_all_messages[k])]

\* C23: what process_files hands the converters is dedup(filter(all)) when
\* duplicate removal is on and filter(all) otherwise; filtered_messages is
\* the size of filter(all), duplicates_removed is that size less the number
\* of records converted, and total_messages >= filtered_messages >=
\* filtered_messages - duplicates_removed >= 0.
C23_FilterThenDedup ==
  bp_pc \in {"converting", "returned"} =>
    LET filtered == filter_messages(bp_filter, AllExtracted)
    IN /\ bp_processed = IF bp_dedup.remove
                         THEN remove_duplicates(bp_dedup.detector, filtered, "first")
                         ELSE filtered
       /\ \A f \in DOMAIN bp_results : bp_results[f].total_messages = Len(bp_processed)
       /\ bp_stats.filtered_messages = Len(filtered)
       /\ bp_stats.duplicates_removed = Len(filtered) - Len(bp_processed)
       /\ bp_stats.total_messages >= bp_stats.filtered_messages
       /\ bp_stats.filtered_messages >= bp_stats.filtered_messages - bp_stats.duplicates_removed
       /\ bp_stats.filtered_messages - bp_stats.duplicates_removed >= 0

\* A batch with an excluded folder and duplicate removal has returned: four
\* records were extracted, the filter kept two and the detector one of them,
\* which was converted.
C23_Witness ==
  /\ bp_pc = "returned"
  /\ bp_dedup.remove
  /\ bp_filter.exclude_folders # <<>>
  /\ bp_stats.total_messages = 4
  /\ bp_stats.filtered_messages = 2
  /\ bp_stats.duplicates_removed = 1
  /\ Len(bp_processed) = 1
  /\ \E f \in DOMAIN bp_results : bp_results[f].converted_count = 1

StructuredOut == SelectSeq(ex_out, LAMBDA r : r.kind = "structured")

\* Pre-order of folders: a folder before its descendants, and otherwise by the
\* library index at the first place where the two paths part
PreOrderBefore(p, q) ==
  LET shorter == IF Len(p) < Len(q) THEN Len(p) ELSE Len(q)
      differ == { k \in 1..shorter : p[k] # q[k] }
  IN IF differ = {} THEN Len(p) < Len(q)
     ELSE LET k == CHOOSE d \in differ : \A e \in differ : d <= e
          IN p[k] < q[k]

\* C11: structured extraction yields records in depth-first pre-order: of any
\* two records, the earlier one comes from the same folder at a smaller
\* index, from an ancestor folder, or from a subtree under a smaller library
\* index, so a folder's records precede its descendants' and each subtree is
\* finished before the next sibling starts.
C11_DepthFirstPreOrder ==
  \A a, b \in 1..Len(StructuredOut) :
    a < b =>
      LET first == StructuredOut[a]
          second == StructuredOut[b]
      IN IF first.folder = second.folder
         THEN first.index < second.index
         ELSE PreOrderBefore(first.folder, second.folder)

\* A run over a tree of five folders has ended, with records from the root,
\* from both subfolders and from both subfolders of the first.
C11_Witness ==
  /\ ex_pc = "done"
  /\ ex_run = 1
  /\ \A path \in TreePaths : \E a \in 1..Len(StructuredOut) : StructuredOut[a].folder = path

\* C12: two complete runs of extract_messages over the same archive, with
\* the library giving the same results, yield the same records in the same
\* order, in structured mode and in fallback mode.
C12_Deterministic ==
  ex_run = 2 /\ ex_pc = "done" => ex_out = ex_first

\* A second run has ended that yielded structured records and then, the
\* library's close having raised, records of the scan.
C12_Witness ==
  /\ ex_run = 2
  /\ ex_pc = "done"
  /\ \E a \in 1..Len(ex_out) : ex_out[a].kind = "structured"
  /\ \E a \in 1..Len(ex_out) : ex_out[a].kind = "scanned"

\* The folders the traversal can enter: every folder on the way from the root
\* is returned by get_sub_folder and has a readable name
Enterable ==
  { path \in TreePaths :
      \A k \in 0..Len(path) : ex_pff.folders[SubSeq(path, 1, k)].access = "ok" }

\* The messages of the tree that can be fetched and converted
Convertible ==
  UNION { { Record("structured", path, i) :
              i \in { j \in DOMAIN ex_pff.folders[path].items :
                        ex_pff.folders[path].items[j] = "ok" } } :
          path \in Enterable }

\* C13: in structured extraction a message whose getter or conversion raises
\* is left out and every other message of its folder and of the later folders
\* is yielded; a subfolder whose access raises is passed over and its later
\* siblings are visited; extract_messages itself never raises for it.  So when
\* the traversal returns, the structured records are exactly the convertible
\* messages of the enterable folders, once each.
C13_ItemErrorsSkipped ==
  /\ ex_pc # "raised"
  /\ \A a \in 1..Len(StructuredOut) : StructuredOut[a] \in Convertible
  /\ ex_pc = "lib_close" =>
       /\ { StructuredOut[a] : a \in 1..Len(StructuredOut) } = Convertible
       /\ Len(StructuredOut) = Cardinality(Convertible)

\* The traversal has returned over a tree whose root has a message that
\* cannot be fetched and one that cannot be converted, whose first subfolder
\* raises on access and whose second subfolder has a message: the root's two
\* good messages and the second subfolder's message were yielded.
C13_Witness ==
  /\ ex_pc = "lib_close"
  /\ ex_pff.folders[<<>>].items = <<"get_raises", "ok", "convert_raises", "ok">>
  /\ ex_pff.folders[<<1>>].access = "raises"
  /\ ex_pff.folders[<<2>>].access = "ok"
  /\ StructuredOut = << Record("structured", <<>>, 2), Record("structured", <<>>, 4),
                        Record("structured", <<2>>, 1) >>

\* The records of the scan and the placeholder yielded so far
FallbackOut == SelectSeq(ex_out, LAMBDA r : r.kind # "structured")

\* This run falls back: pypff is missing or one of its calls raises
FallsBack == ex_lib = "missing" \/ ex_pff.fault # "none"

\* C14: in fallback mode the scan makes at most 10 records, at most one for
\* each window it reads and none otherwise, and what is yielded is those
\* records or, when there are none, exactly one placeholder: fallback output
\* is never empty.
C14_FallbackOutput ==
  /\ [] /\ Len(sc_messages) <= sc_message_count
        /\ sc_message_count <= ScanCap
        /\ Cardinality({ a \in 1..Len(FallbackOut) : FallbackOut[a].kind = "scanned" }) <= ScanCap
        /\ ex_pc = "done" /\ FallsBack =>
             \/ FallbackOut = << Record("placeholder", <<>>, 0) >>
             \/ /\ FallbackOut # <<>>
                /\ \A a \in 1..Len(FallbackOut) : FallbackOut[a].kind = "scanned"
        /\ ex_pc = "done" /\ ~ FallsBack => FallbackOut = <<>>
  /\ [][ /\ ex_pc = "scan" /\ sc_reads' # sc_reads =>
              Len(sc_messages') <= Len(sc_messages) + 1
         /\ Len(sc_messages') > Len(sc_messages) =>
              ex_pc = "scan" /\ sc_reads' # sc_reads ]_vars

\* A run without the library has ended that yielded ten scanned records, the
\* most the scan makes.
C14_Witness ==
  /\ ex_pc = "done"
  /\ ex_lib = "missing"
  /\ Len(ex_out) = ScanCap
  /\ \A a \in 1..Len(ex_out) : ex_out[a].kind = "scanned"

\* C27: one run never mixes modes: whichever library step raises, scanned
\* records or the placeholder are yielded only in a run that has yielded no
\* structured record.
C27_NeverMixesModes == StructuredOut = <<>> \/ FallbackOut = <<>>

-----------------------------------------------------------------------------
(* BaseConverter (base_converter.py): file names                           *)

\* c.isalnum() on the characters of the model
IsAlnum(c) ==
  \/ \E i \in 1..Len(UpperLetters) : UpperLetters[i] = c
  \/ \E i \in 1..Len(LowerLetters) : LowerLetters[i] = c
  \/ \E n \in 0..9 : Digit(n) = c

\* c.isalnum() or c in (' ', '-', '_')
IsFilenameChar(c) == IsAlnum(c) \/ c \in {" ", "-", "_"}

\* str(n) for n >= 0
RECURSIVE Str(_)
Str(n) == IF n < 10 THEN <<Digit(n)>> ELSE Str(n \div 10) \o <<Digit(n % 10)>>

\* Limit length: safe_subject[:50]
SubjectLimit == 50

Chars_message == <<"m","e","s","s","a","g","e","_">>

\* the subject part of a file name
SafeSubject(message, index) ==
  LET subject == Or(message.subject, Chars_message \o Str(index))
      safe_subject == Prefix(Strip(SelectSeq(subject, IsFilenameChar)), SubjectLimit)
  IN IF safe_subject = <<>> THEN Chars_message \o Str(index) ELSE safe_subject

\* strftime("_%Y%m%d_%H%M%S") on the datetimes of the model
Strftime(d) ==
  <<"_">> \o TwoDigits(d.day) \o <<"_">> \o TwoDigits(d.minute) \o TwoDigits(d.second)

\* the timestamp part: of sent_time, else of received_time, else empty
Timestamp(message) ==
  IF message.sent_time # None THEN Strftime(message.sent_time[1])
  ELSE IF message.received_time # None THEN Strftime(message.received_time[1])
  ELSE <<>>

\* base_filename
BaseFilename(message, index) == SafeSubject(message, index) \o Timestamp(message)

\* The k-th name tried: base.ext, then base_1.ext, base_2.ext, ...
Candidate(base, k, extension) ==
  IF k = 0 THEN base \o <<".">> \o extension
  ELSE base \o <<"_">> \o Str(k) \o <<".">> \o extension

\* The name is taken whatever the directory holds
FirstFreeZero(dir, base, extension) == 0

\* while (self.output_dir / filename).exists(): the first k whose name is
\* not in the directory
FirstFree(dir, base, extension) ==
  CHOOSE k \in 0..Cardinality(dir) :
    /\ Candidate(base, k, extension) \notin dir
    /\ \A j \in 0..(k - 1) : Candidate(base, j, extension) \in dir

\* BaseConverter._generate_filename
generate_filename(dir, message, index, extension) ==
  LET base == BaseFilename(message, index)
  IN Candidate(base, FirstFree(dir, base, extension), extension)

\* One turn of the loop of convert_messages: the name is generated against
\* the directory as it is, then convert_message runs: it returns True or not
\* (False or an exception, both counted as an error), and has or has not
\* created the file of that name in output_dir.
ConvertOne ==
  /\ nm_pc = "loop"
  /\ nm_i < Len(nm_messages)
  /\ LET message == nm_messages[nm_i + 1]
         filename == generate_filename(nm_dir, message, nm_i, nm_ext)
     IN \E success \in BOOLEAN, written \in BOOLEAN :
          /\ nm_dir' = IF written THEN nm_dir \cup {filename} ELSE nm_dir
          /\ nm_result' =
               IF success
               THEN [nm_result EXCEPT !.converted_count = @ + 1]
               ELSE [nm_result EXCEPT !.error_count = @ + 1]
          /\ nm_log' = Append(nm_log,
               [filename |-> filename, existing |-> nm_dir,
                success |-> success, written |-> written])
  /\ nm_i' = nm_i + 1
  /\ UNCHANGED <<nm_messages, nm_ext, nm_pc>>
  /\ UNCHANGED notNm

\* convert_messages returns its counts
ConvertReturn ==
  /\ nm_pc = "loop"
  /\ nm_i = Len(nm_messages)
  /\ nm_pc' = "returned"
  /\ UNCHANGED <<nm_dir, nm_messages, nm_ext, nm_i, nm_result, nm_log>>
  /\ UNCHANGED notNm

\* Most messages handed to one convert_messages
MaxNames == 3

Chars_Hi == <<"H","i">>

\* The messages tried: a subject without a time, the same with a sent time,
\* no subject, and a subject of which no character is kept
NameMessages ==
  { EmailMessage(subject, <<>>, <<>>, <<>>, sent_time, None, <<>>, <<>>) :
      subject \in {Chars_Hi}, sent_time \in {None, Some(DateTime(1, 2, 3))} }
  \cup { EmailMessage(subject, <<>>, <<>>, <<>>, None, None, <<>>, <<>>) :
           subject \in {<<>>, <<" ", "/">>} }

\* get_file_extension of the converters tried
Extensions == { <<"e","m","l">>, <<"t","x","t">> }

\* What output_dir holds before the call: nothing, or files of earlier runs
Directories(extension) ==
  { {}, {Candidate(Chars_Hi, 0, extension), Candidate(Chars_Hi, 2, extension)} }

InitNames ==
  /\ nm_ext \in Extensions
  /\ nm_dir \in Directories(nm_ext)
  /\ \E n \in 0..MaxNames : nm_messages \in [1..n -> NameMessages]
  /\ nm_pc = "loop" /\ nm_i = 0
  /\ nm_result = [converted_count |-> 0, error_count |-> 0]
  /\ nm_log = <<>>
  /\ DedupIdle /\ FilterIdle /\ ParserIdle /\ ExtractIdle /\ FolderIdle
  /\ BatchIdle /\ TrackerIdle

NextNames ==
  \/ ConvertOne
  \/ ConvertReturn

SpecNames == InitNames /\ [][NextNames]_vars

\* s.endswith(t)
EndsWith(s, t) == Len(t) <= Len(s) /\ SubSeq(s, Len(s) - Len(t) + 1, Len(s)) = t

\* Every conversion so far that returned True has created its file
SuccessWrites == \A a \in 1..Len(nm_log) : nm_log[a].success => nm_log[a].written

\* C24: the file names convert_messages generates end in the converter's
\* extension; each is the base name, or the base name with _1, _2, ... before
\* the extension, the first of these that no file in the directory has; and
\* when every successful conversion has created its file before the next
\* name is generated, the names of the successful conversions are pairwise
\* distinct, so N successful messages of one subject and no timestamp get N
\* distinct names.
C24_DistinctFilenames ==
  /\ \A a \in 1..Len(nm_log) :
       LET base == BaseFilename(nm_messages[a], a - 1)
       IN /\ EndsWith(nm_log[a].filename, <<".">> \o nm_ext)
          /\ nm_log[a].filename \notin nm_log[a].existing
          /\ \E k \in 0..Cardinality(nm_log[a].existing) :
               /\ nm_log[a].filename = Candidate(base, k, nm_ext)
               /\ \A j \in 0..(k - 1) : Candidate(base, j, nm_ext) \in nm_log[a].existing
  /\ SuccessWrites =>
       \A a, b \in 1..Len(nm_log) :
         a < b /\ nm_log[a].success /\ nm_log[b].success
           => nm_log[a].filename # nm_log[b].filename

\* Three messages of the subject "Hi" and no timestamp were converted into a
\* directory that had Hi.eml and Hi_2.eml: they are Hi_1.eml, Hi_3.eml and
\* Hi_4.eml
C24_Witness ==
  /\ nm_pc = "returned"
  /\ nm_result = [converted_count |-> 3, error_count |-> 0]
  /\ \A a \in 1..3 : nm_messages[a].subject = Chars_Hi /\ Timestamp(nm_messages[a]) = <<>>
  /\ SuccessWrites
  /\ [a \in 1..3 |-> nm_log[a].filename] =
       << <<"H","i","_","1",".","e","m","l">>,
          <<"H","i","_","3",".","e","m","l">>,
          <<"H","i","_","4",".","e","m","l">> >>

-----------------------------------------------------------------------------
(* ProgressTracker (batch_processor.py)                                    *)

\* The thread that calls update_progress, and another thread that calls
\* get_progress on the same tracker
Updater == "updater"

Reader == "reader"

\* The four fields get_progress returns
Fields(progress, status, current_step, total_steps) ==
  [progress |-> progress, status |-> status,
   current_step |-> current_step, total_steps |-> total_steps]

\* ProgressTracker.__init__
TrackerInit == Fields(0, "Ready", 0, 0)

\* The arguments of the update_progress call
UpdateArgs == Fields(50, "Half", 1, 2)

\* A callback that calls get_progress or add_callback on the tracker it is
\* registered with
CallsTracker(kind) == kind \in {"get_progress", "add_callback"}

\* update_progress is called: the thread comes to "with self._lock"
UpdateProgress ==
  /\ pt_pc[Updater] = "ready"
  /\ pt_pc' = [pt_pc EXCEPT ![Updater] = "update_lock"]
  /\ UNCHANGED <<pt_callbacks, pt_lock, pt_fields, pt_i, pt_notified, pt_got>>
  /\ UNCHANGED notPt

\* get_progress is called by the other thread
GetProgress ==
  /\ pt_pc[Reader] = "ready"
  /\ pt_pc' = [pt_pc EXCEPT ![Reader] = "get_lock"]
  /\ UNCHANGED <<pt_callbacks, pt_lock, pt_fields, pt_i, pt_notified, pt_got>>
  /\ UNCHANGED notPt

\* threading.Lock.acquire at a "with self._lock": it is taken when no thread
\* holds it, the thread that holds it included
Acquire(thread) ==
  /\ pt_pc[thread] \in {"update_lock", "get_lock", "callback_lock"}
  /\ pt_lock = <<>>
  /\ pt_lock' = <<thread>>
  /\ pt_pc' = [pt_pc EXCEPT ![thread] =
                 IF @ = "update_lock" THEN "storing"
                 ELSE IF @ = "get_lock" THEN "reading"
                 ELSE "callback_in"]
  /\ UNCHANGED <<pt_callbacks, pt_fields, pt_i, pt_notified, pt_got>>
  /\ UNCHANGED notPt

\* update_progress stores the four fields
Store ==
  /\ pt_pc[Updater] = "storing"
  /\ pt_fields' = UpdateArgs
  /\ pt_i' = 1
  /\ pt_pc' = [pt_pc EXCEPT ![Updater] = "notifying"]
  /\ UNCHANGED <<pt_callbacks, pt_lock, pt_notified, pt_got>>
  /\ UNCHANGED notPt

\* for callback in self.callbacks: the callback is called inside the lock; one
\* that returns or raises is done with (the exception is logged), one that
\* calls get_progress or add_callback comes to that method's "with self._lock"
CallCallback ==
  /\ pt_pc[Updater] = "notifying"
  /\ pt_i <= Len(pt_callbacks)
  /\ IF CallsTracker(pt_callbacks[pt_i])
     THEN /\ pt_pc' = [pt_pc EXCEPT ![Updater] = "callback_lock"]
          /\ UNCHANGED <<pt_i, pt_notified>>
     ELSE /\ pt_notified' = pt_notified \cup {pt_i}
          /\ pt_i' = pt_i + 1
          /\ UNCHANGED pt_pc
  /\ UNCHANGED <<pt_callbacks, pt_lock, pt_fields, pt_got>>
  /\ UNCHANGED notPt

\* The end of a "with self._lock" of get_progress or add_callback: the
\* fields are returned, or the callback is appended, and the lock released
Release(thread) ==
  /\ pt_pc[thread] \in {"reading", "callback_in"}
  /\ pt_lock = <<thread>>
  /\ pt_lock' = <<>>
  /\ IF pt_pc[thread] = "reading"
     THEN /\ pt_got' = << pt_fields >>
          /\ pt_pc' = [pt_pc EXCEPT ![thread] = "returned"]
          /\ UNCHANGED <<pt_callbacks, pt_i, pt_notified>>
     ELSE /\ pt_callbacks' =
               IF pt_callbacks[pt_i] = "add_callback"
               THEN Append(pt_callbacks, "plain") ELSE pt_callbacks
          /\ pt_notified' = pt_notified \cup {pt_i}
          /\ pt_i' = pt_i + 1
          /\ pt_pc' = [pt_pc EXCEPT ![thread] = "notifying"]
          /\ UNCHANGED pt_got
  /\ UNCHANGED pt_fields
  /\ UNCHANGED notPt

\* The loop is over: the "with" of update_progress releases the lock and the
\* call returns
UpdateReturn ==
  /\ pt_pc[Updater] = "notifying"
  /\ pt_i > Len(pt_callbacks)
  /\ pt_lock' = <<>>
  /\ pt_pc' = [pt_pc EXCEPT ![Updater] = "returned"]
  /\ UNCHANGED <<pt_callbacks, pt_fields, pt_i, pt_notified, pt_got>>
  /\ UNCHANGED notPt

\* Most callbacks registered
MaxCallbacks == 3

\* What a registered callback does
CallbackKinds == {"plain", "raises", "get_progress", "add_callback"}

InitTracker ==
  /\ \E n \in 0..MaxCallbacks : pt_callbacks \in [1..n -> CallbackKinds]
  /\ pt_lock = <<>>
  /\ pt_fields = TrackerInit
  /\ pt_pc = [thread \in {Updater, Reader} |-> "ready"]
  /\ pt_i = 0 /\ pt_notified = {} /\ pt_got = <<>>
  /\ DedupIdle /\ FilterIdle /\ ParserIdle /\ ExtractIdle /\ FolderIdle
  /\ BatchIdle /\ NamesIdle

NextTracker ==
  \/ UpdateProgress
  \/ GetProgress
  \/ \E thread \in {Updater, Reader} : Acquire(thread)
  \/ Store
  \/ CallCallback
  \/ \E thread \in {Updater, Reader} : Release(thread)
  \/ UpdateReturn

SpecTracker == InitTracker /\ [][NextTracker]_vars

\* C29: update_progress always returns, whatever the registered callbacks do:
\* the calling thread never waits for the lock while it holds the lock itself
\* (a wait that cannot end, the thread being the only one that can release
\* it), and when the call has returned the thread does not hold the lock and
\* every callback was notified.
C29_UpdateAlwaysReturns ==
  /\ ~(pt_pc # <<>> /\ pt_pc[Updater] = "callback_lock" /\ pt_lock = <<Updater>>)
  /\ pt_pc # <<>> /\ pt_pc[Updater] = "returned"
       => pt_lock # <<Updater>> /\ pt_notified = 1..Len(pt_callbacks)

\* The half of it that holds: a callback that raises stops nothing
RaisingCallbackPassed ==
  pt_pc # <<>> /\ pt_pc[Updater] = "returned" /\ pt_lock # <<Updater>>
  /\ pt_notified = 1..Len(pt_callbacks)
  /\ \E a \in 1..Len(pt_callbacks) : pt_callbacks[a] = "raises" /\ a < Len(pt_callbacks)

====
